---- MODULE Spec2Model ----
(***************************************************************************)
(* Aura-X: the execute-detect-repair loop of AuraXSystem.run (src/main.py) *)
(* with the execution engine (src/core/executor.py), the agents it calls   *)
(* (src/agents) and the retrying HTTP client (src/core/ollama_client.py).  *)
(*                                                                         *)
(* Spec      the orchestrator: one run of AuraXSystem.run, every awaited   *)
(*           call split into the step that dispatches it and the step at   *)
(*           which the await resumes.                                      *)
(* FairSpec  Spec with weak fairness of Next: every awaited call returns.  *)
(* RpcSpec   one call of OllamaClient._request_json / generate /           *)
(*           check_server / check_model, one step per HTTP attempt.        *)
(* AgentSpec one call of _post_to_ollama of PlannerAgent, DebuggerAgent or *)
(*           CoderAgent, one step per HTTP attempt.                        *)
(* EngineSpec one call of CoderAgent.write_file or of                      *)
(*           ExecutionEngine.run_python_file on a given disk, with the     *)
(*           child process and a process it may have spawned.              *)
(* FairEngineSpec EngineSpec with weak fairness of the steps of            *)
(*           run_python_file, none of the processes' exits.                *)
(* FnSpec    one application of a function of the program to arguments     *)
(*           drawn from a bounded set: ExecutionResult.has_error,          *)
(*           PlannerAgent._validate_plan, the two path resolvers, and the  *)
(*           part of run that sanitizes the project name and derives the   *)
(*           paths of a file from it.                                      *)
(*                                                                         *)
(* Texts are sequences of one-character strings so that strip(), lower()   *)
(* and Path.suffix are computed, not assumed.  The interpreter is taken to *)
(* be CPython >= 3.11, where asyncio.TimeoutError is the builtin           *)
(* TimeoutError that executor.py catches.  print() is taken not to raise.  *)
(***************************************************************************)
EXTENDS Naturals, Integers, Sequences, FiniteSets, TLC

VARIABLES
    user_request,   \* "text" | "blank": the argument of run
    plan,           \* plan["tasks"]: sequence of files_to_create sequences
    pc,             \* position of run (see Stages)
    waiting,        \* TRUE while run is suspended on an awaited call
    inflight,       \* leaf operations dispatched and not yet finished
    ti, fi,         \* indexes of the two for loops of run (task, file)
    genCalls,       \* position -> number of generate_file_code calls
    started,        \* positions in the order they entered the loop body
    finished,       \* positions in the order they left the loop body
    results,        \* ExecutionResults of the current file, oldest first
    fixCalls,       \* fix_code calls for the current file
    writeCalls,     \* write_file calls for the current file
    writes,         \* write_file calls that succeeded for the current file
    procLaunched,   \* child processes launched for the current file
    original_code,  \* what read_text returned in _attempt_fix_once
    fixed_code,     \* what fix_code returned in _attempt_fix_once
    report,         \* messages printed for the current file, in order
    rootCreated,    \* project_root.mkdir has succeeded
    exitStatus,     \* value returned by run, -1 while it has not returned
    rq_cfg_max_retries, \* the max_retries argument of OllamaClient.__init__
    rq_max_retries, \* OllamaClient.max_retries as stored by __init__
    rq_cfg_base,    \* the retry_backoff_seconds argument (in half seconds)
    rq_base,        \* OllamaClient.retry_backoff_seconds as stored
    rq_requests_new,\* requests >= 2.27: its JSONDecodeError is a RequestException
    rq_retry_count, \* the retry_count argument: <<>> for None, <<n>> for n
    rq_attempt,     \* loop variable of _request_json
    rq_attempts,    \* number of session.request calls made
    rq_sleeps,      \* the delays slept, in order
    rq_state,       \* "idle" | "running" | "returned" | "raised"
    rq_failures,    \* kinds of failure of the attempts made, in order
    rq_error,       \* the error _request_json raised, "none" if none
    rq_client,      \* the class whose HTTP code runs
    rq_api,         \* the public method that was called
    rq_body,        \* the JSON object of the 2xx response, NoBody if none
    rq_result,      \* what the public method returned or raised
    en_fs,          \* the regular files on disk (absolute paths)
    en_fs0,         \* the files on disk before the call
    en_op,          \* "none" | "write_file" | "run_python_file"
    en_name,        \* the file_name argument
    en_path,        \* what _resolve_project_path returned, <<>> if nothing
    en_state,       \* "idle" | "running" | "draining" | "returned" | "raised"
    en_error,       \* the error the call raised, "none" if none
    en_child,       \* the child process and the process it spawned
    en_launched,    \* number of child processes created
    en_result,      \* the ExecutionResult run_python_file returned
    fn_op,          \* the function or code path applied, "none" if none
    fn_in,          \* its arguments
    fn_state,       \* "input" | "sanitized" | "applied"
    fn_out          \* <<>> before it returned, then its value

orchVars == <<user_request, plan, pc, waiting, inflight, ti, fi, genCalls,
              started, finished, results, fixCalls, writeCalls, writes,
              procLaunched, original_code, fixed_code, report, rootCreated,
              exitStatus>>
rpcVars == <<rq_cfg_max_retries, rq_max_retries, rq_cfg_base, rq_base,
             rq_requests_new, rq_retry_count, rq_attempt, rq_attempts,
             rq_sleeps, rq_state, rq_failures, rq_error, rq_client, rq_api,
             rq_body, rq_result>>
engVars == <<en_fs, en_fs0, en_op, en_name, en_path, en_state, en_error,
             en_child, en_launched, en_result>>
fnVars == <<fn_op, fn_in, fn_state, fn_out>>
vars == <<orchVars, rpcVars, engVars, fnVars>>

-----------------------------------------------------------------------------
(* Bounds *)

\* the largest number of files a plan lists, over all its tasks
MaxPlanFiles == 3

\* the longest string _sanitize_project_name is applied to
MaxNameLen == 3

\* the largest max_retries / retry_count a caller configures
MaxRetriesCfg == 2

-----------------------------------------------------------------------------
(* Text helpers *)

Whitespace == {" ", "\n"}

RECURSIVE lstrip(_)
lstrip(s) ==
    IF s = <<>> THEN <<>>
    ELSE IF Head(s) \in Whitespace THEN lstrip(Tail(s)) ELSE s

RECURSIVE rstrip(_)
rstrip(s) ==
    IF s = <<>> THEN <<>>
    ELSE IF s[Len(s)] \in Whitespace THEN rstrip(SubSeq(s, 1, Len(s) - 1)) ELSE s

\* str.strip()
strip(s) == rstrip(lstrip(s))

\* str.lower() on one character of the alphabet the file names use
lower_char(c) ==
    CASE c = "P" -> "p"
      [] c = "Y" -> "y"
      [] c = "M" -> "m"
      [] c = "D" -> "d"
      [] OTHER -> c

\* str.lower()
lower(s) == [i \in 1..Len(s) |-> lower_char(s[i])]

\* str.rfind("."), 1-based, 0 when absent
RECURSIVE rfind_dot(_)
rfind_dot(s) ==
    IF s = <<>> THEN 0
    ELSE IF s[Len(s)] = "." THEN Len(s) ELSE rfind_dot(SubSeq(s, 1, Len(s) - 1))

\* PurePath.suffix of a final path component: name[i:] when the last dot is
\* neither the first nor the last character, else ""
suffix(name) ==
    LET i == rfind_dot(name)
    IN  IF 1 < i /\ i < Len(name) THEN SubSeq(name, i, Len(name)) ELSE <<>>

DotPy == <<".", "p", "y">>

-----------------------------------------------------------------------------
(* Plans *)

\* file names a validated plan may carry (already stripped, non-blank)
\* a Python file with a mixed-case extension, a non-Python file, and a
\* Python file placed in the directory above the project
FileNames == { <<"a", ".", "P", "y">>,
               <<"r", ".", "m", "d">>,
               <<".", ".", "/", "a", ".", "P", "y">> }

FileLists(n) == [1..n -> FileNames]

\* the task lists with n files in all, every task with at least one file
RECURSIVE PlansOfSize(_)
PlansOfSize(n) ==
    { <<l>> : l \in FileLists(n) }
        \cup UNION { { <<l>> \o p : l \in FileLists(k), p \in PlansOfSize(n - k) }
                     : k \in 1..(n - 1) }

\* what PlannerAgent.create_plan can return: a non-empty task list, every
\* task with a non-empty files_to_create
Plans == UNION { PlansOfSize(n) : n \in 1..MaxPlanFiles }

Positions(p) ==
    UNION { { <<t, f>> : f \in 1..Len(p[t]) } : t \in 1..Len(p) }

NoPos == <<0, 0>>
pos == <<ti, fi>>
file_name == plan[ti][fi]

-----------------------------------------------------------------------------
(* ExecutionResult *)

ExecutionResult(rc, err, to) ==
    [return_code |-> rc, stderr |-> err, timed_out |-> to]

has_error_ignoring_stderr(r) == r.timed_out \/ r.return_code # 0

\* has_error with bool(self.stderr) in place of bool(self.stderr.strip())
has_error_unstripped(r) ==
    r.timed_out \/ r.return_code # 0 \/ r.stderr # <<>>

\* ExecutionResult.has_error
has_error(r) == r.timed_out \/ r.return_code # 0 \/ strip(r.stderr) # <<>>

\* exit statuses and captured stderr texts a child process can produce
ReturnCodes == {0, 1}
StderrTexts == { <<>>, <<" ", "\n">>, <<"E", "\n">> }
TimeoutMessage == <<"T">>
TimeoutReturnCode == 124

\* str(exc) of the exceptions run_python_file raises
ExcText == <<"X">>

\* the result run_python_file builds on normal completion
completed_result(rc, err) == ExecutionResult(rc, err, FALSE)

\* a timed-out result that looks like an ordinary failure
timed_out_result_as_failure(err) == ExecutionResult(1, err, TRUE)

\* the result run_python_file builds after the timeout fired
timed_out_result(err) ==
    ExecutionResult(TimeoutReturnCode,
                    strip(err \o <<"\n">> \o TimeoutMessage), TRUE)

\* the result _execute_file builds when run_python_file raised
fake_result == ExecutionResult(1, ExcText, FALSE)

\* str(n) of a natural number
RECURSIVE str_int(_)
str_int(n) ==
    LET digit(d) == <<"0", "1", "2", "3", "4", "5", "6", "7", "8", "9">>[d + 1]
    IN  IF n < 10 THEN <<digit(n)>>
        ELSE str_int(n \div 10) \o <<digit(n % 10)>>

\* main.py 110: the error_message argument of fix_code, an empty stderr
\* being the only one that `or` replaces
error_message(first_result) ==
    IF first_result.stderr # <<>> THEN first_result.stderr
    ELSE <<"E", "x", "i", "t", " ", "c", "o", "d", "e", ":", " ">>
             \o str_int(first_result.return_code)

-----------------------------------------------------------------------------
(* Messages printed by run and _attempt_fix_once *)

MsgGenFailed == "Code generation failed"
MsgCreated == "Created"
MsgWriteFailed == "Write failed"
MsgErrorDetected == "Error detected. Attempting automatic correction (1 attempt)."
MsgCannotRead == "Cannot read file for debugging"
MsgDebuggerFailed == "Debugger failed"
MsgRewriteFailed == "Failed to write corrected code"
MsgRerun == "Re-running file after auto-correction..."
MsgFixFailed == "Automatic correction failed."
MsgFixOk == "Automatic correction successful."

-----------------------------------------------------------------------------
(* Paths and the project directory *)

\* a path is the sequence of its components below the filesystem root; a
\* component, like a file name, is a sequence of characters.  No symbolic
\* link exists, so Path.resolve() is the lexical normalisation.

\* str.split("/")
RECURSIVE split(_)
split(s) ==
    IF \A i \in 1..Len(s) : s[i] # "/" THEN <<s>>
    ELSE LET i == CHOOSE k \in 1..Len(s) :
                      s[k] = "/" /\ \A j \in 1..(k - 1) : s[j] # "/"
         IN  <<SubSeq(s, 1, i - 1)>> \o split(SubSeq(s, i + 1, Len(s)))

is_absolute(s) == s # <<>> /\ s[1] = "/"

\* Path.resolve(): "" and "." are dropped, ".." removes the component
\* before it and is dropped at the filesystem root
RECURSIVE normalize(_, _)
normalize(segs, acc) ==
    IF segs = <<>> THEN acc
    ELSE LET seg == Head(segs)
         IN  IF seg = <<>> \/ seg = <<".">> THEN normalize(Tail(segs), acc)
             ELSE IF seg = <<".", ".">>
             THEN normalize(Tail(segs),
                            IF acc = <<>> THEN acc
                            ELSE SubSeq(acc, 1, Len(acc) - 1))
             ELSE normalize(Tail(segs), Append(acc, seg))

resolve(path) == normalize(path, <<>>)

\* base / name: an absolute name replaces the base
joinpath(base, name) ==
    IF is_absolute(name) THEN split(name) ELSE base \o split(name)

\* PurePath.parents
parents(path) == { SubSeq(path, 1, k) : k \in 0..(Len(path) - 1) }

\* the working directory of the program, PROJECTS_ROOT (executor.py 6) and
\* the sanitized project name (main.py 134-137)
Cwd == << <<"w">> >>
PROJECTS_ROOT == <<"p", "r", "o", "j", "e", "c", "t", "s">>
ProjectName == <<"p">>

\* coder.py 64, executor.py 79: PROJECTS_ROOT / project_name.strip()
project_path == Cwd \o <<PROJECTS_ROOT, strip(ProjectName)>>

\* the containment test with the answer fixed to "inside"
is_outside_never(project_root, target_path) == FALSE

\* coder.py 144, executor.py 81
is_outside(project_root, target_path) ==
    project_root \notin parents(target_path) /\ target_path # project_root

\* the resolver without its containment test
resolve_project_path_unchecked(base, name) ==
    [ok |-> TRUE, path |-> resolve(joinpath(resolve(base), name))]

\* coder.py 141-146, executor.py 78-83 (file_name already stripped): the
\* path returned, or ok = FALSE when ValueError is raised
resolve_project_path(base, name) ==
    LET project_root == resolve(base)
        target_path == resolve(joinpath(project_root, name))
    IN  [ok |-> ~is_outside(project_root, target_path), path |-> target_path]

\* PurePath.suffix of a path
path_suffix(path) == IF path = <<>> THEN <<>> ELSE suffix(path[Len(path)])

\* Path.exists(): a file, or a directory holding one
exists(path, fs) ==
    \E f \in fs : Len(path) <= Len(f) /\ SubSeq(f, 1, Len(path)) = path

is_dir(path, fs) ==
    \E f \in fs : Len(path) < Len(f) /\ SubSeq(f, 1, Len(path)) = path

-----------------------------------------------------------------------------
(* The project name and the two resolvers *)

AsciiLetters ==
    {"a", "b", "c", "d", "e", "f", "g", "h", "i", "j", "k", "l", "m",
     "n", "o", "p", "q", "r", "s", "t", "u", "v", "w", "x", "y", "z",
     "A", "B", "C", "D", "E", "F", "G", "H", "I", "J", "K", "L", "M",
     "N", "O", "P", "Q", "R", "S", "T", "U", "V", "W", "X", "Y", "Z"}
AsciiDigits == {"0", "1", "2", "3", "4", "5", "6", "7", "8", "9"}

\* main.py 135: the characters the class [A-Za-z0-9_-] matches
NameChars == AsciiLetters \cup AsciiDigits \cup {"_", "-"}

\* main.py 135: re.sub(r"[^A-Za-z0-9_-]+", "_", s); in_run is TRUE inside a
\* run of other characters whose "_" has been written
RECURSIVE sub_other_runs(_, _)
sub_other_runs(s, in_run) ==
    IF s = <<>> THEN <<>>
    ELSE IF Head(s) \in NameChars
    THEN <<Head(s)>> \o sub_other_runs(Tail(s), FALSE)
    ELSE IF in_run THEN sub_other_runs(Tail(s), TRUE)
    ELSE <<"_">> \o sub_other_runs(Tail(s), TRUE)

\* str.strip("_") that removes one "_" at most from each end
strip_underscores_once(s) ==
    LET t == IF s # <<>> /\ Head(s) = "_" THEN Tail(s) ELSE s
    IN  IF t # <<>> /\ t[Len(t)] = "_" THEN SubSeq(t, 1, Len(t) - 1) ELSE t

\* main.py 136: str.strip("_")
RECURSIVE strip_underscores(_)
strip_underscores(s) ==
    IF s = <<>> THEN <<>>
    ELSE IF Head(s) = "_" THEN strip_underscores(Tail(s))
    ELSE IF s[Len(s)] = "_" THEN strip_underscores(SubSeq(s, 1, Len(s) - 1))
    ELSE s

\* main.py 137: the name used when nothing is left
GeneratedProject ==
    <<"g", "e", "n", "e", "r", "a", "t", "e", "d", "_",
      "p", "r", "o", "j", "e", "c", "t">>

\* the project name taken as the planner gave it
sanitize_project_name_unchanged(project_name) == strip(project_name)

\* main.py 134-137: AuraXSystem._sanitize_project_name
sanitize_project_name(project_name) ==
    LET cleaned == strip_underscores(sub_other_runs(strip(project_name), FALSE))
    IN  IF cleaned = <<>> THEN GeneratedProject ELSE cleaned

\* coder.py 16: PROJECTS_ROOT of the coder
CODER_PROJECTS_ROOT == <<"p", "r", "o", "j", "e", "c", "t", "s">>

\* coder.py 64-65, 141-146: the path write_file writes to, or ok = FALSE
\* when _resolve_project_path raises ValueError
coder_resolve_project_path(project_name, fname) ==
    LET project_dir ==
            joinpath(Cwd \o <<CODER_PROJECTS_ROOT>>, strip(project_name))
        stripped_name == strip(fname)
        project_root == resolve(project_dir)
        target_path == resolve(joinpath(project_root, stripped_name))
    IN  [ok |-> ~is_outside(project_root, target_path), path |-> target_path]

\* the resolver of the engine with the file name taken as it comes
engine_resolve_project_path_unstripped(projects_root, project_name, fname) ==
    LET project_root ==
            resolve(joinpath(Cwd \o <<projects_root>>, strip(project_name)))
        target_path == resolve(joinpath(project_root, fname))
    IN  [ok |-> ~is_outside(project_root, target_path), path |-> target_path]

\* executor.py 78-83: the path run_python_file executes, or ok = FALSE when
\* _resolve_project_path raises ValueError; projects_root is
\* self.projects_root
engine_resolve_project_path(projects_root, project_name, fname) ==
    LET project_root ==
            resolve(joinpath(Cwd \o <<projects_root>>, strip(project_name)))
        target_path == resolve(joinpath(project_root, strip(fname)))
    IN  [ok |-> ~is_outside(project_root, target_path), path |-> target_path]

\* main.py 32: Path("projects") / project_name, seen from the filesystem root
project_root_of(project_name) ==
    resolve(joinpath(Cwd \o << <<"p", "r", "o", "j", "e", "c", "t", "s">> >>,
                     project_name))

\* main.py 100: (Path("projects") / project_name / file_name).resolve()
fix_target_path(project_name, fname) ==
    resolve(joinpath(joinpath(Cwd \o << <<"p", "r", "o", "j", "e", "c", "t",
                                          "s">> >>, project_name), fname))

-----------------------------------------------------------------------------
(* Orchestrator: decisions of run and _attempt_fix_once *)

\* pc values inside the body of the two for loops; "done" is the point
\* where the body has ended for the current file (continue / fall through)
FileStages == {"gen", "write", "exec", "read", "fix", "rewrite", "reexec", "done"}
Stages == {"plan", "mkdir", "completed", "returned", "raised"} \cup FileStages

\* coder.py 64-65, executor.py 34: what the resolver makes of each file
\* name a plan may carry
resolved_target ==
    [name \in FileNames |-> resolve_project_path(project_path, strip(name))]

\* main.py 100: the path _attempt_fix_once builds without the resolver
read_target ==
    [name \in FileNames |->
        resolve(joinpath(Cwd \o <<PROJECTS_ROOT, ProjectName>>, name))]

\* the path a leaf operation works on: coder.py 64-65 and executor.py 34
\* go through the resolver, main.py 100 builds the path itself, main.py
\* 32-33 is the project directory; an RPC has none
op_path(stage) ==
    CASE stage \in {"write", "rewrite", "exec", "reexec"} ->
             resolved_target[file_name].path
      [] stage = "read" -> read_target[file_name]
      [] stage = "mkdir" -> Cwd \o <<PROJECTS_ROOT, ProjectName>>
      [] OTHER -> <<>>

Op(kind, stage) ==
    [kind |-> kind, pos |-> pos, stage |-> stage, path |-> op_path(stage)]

inflight_keep(s, op) == s

\* the awaited call has finished when the await resumes
inflight_after_return(s, op) == s \ {op}

\* planner.py 49-58: the ways create_plan raises: blank request (ValueError),
\* failed RPC, answer that is not JSON, plan rejected by _validate_plan
PlannerFailures ==
    {"blank_request", "rpc_failure", "unparsable", "invalid_plan"}

\* a run that goes on after the planner raised
after_create_plan_continue(outcome) == "mkdir"

\* main.py 20-24: a plan leads on to the project directory, an exception of
\* the planner to `return 1`
after_create_plan(outcome) ==
    IF outcome \in PlannerFailures THEN "returned" ELSE "mkdir"

after_generate_abort(outcome) == IF outcome = "text" THEN "write" ELSE "raised"

\* main.py 39-47: generate_file_code raised (or returned) inside try
after_generate(outcome) == IF outcome = "text" THEN "write" ELSE "done"

needs_execution_any_suffix(name) == suffix(name) # <<>>

\* main.py 60: written_path.suffix.lower() != ".py" -> continue
needs_execution(name) == lower(suffix(name)) = DotPy

after_write_execute_anyway(outcome, name) ==
    IF needs_execution(name) THEN "exec" ELSE "done"

\* main.py 49-61
after_write(outcome, name) ==
    IF outcome # "ok" THEN "done"
    ELSE IF needs_execution(name) THEN "exec" ELSE "done"

after_first_execution_always_fix(r) == "read"

\* main.py 64-68
after_first_execution(r) == IF has_error(r) THEN "read" ELSE "done"

after_second_execution_retry(r) == IF has_error(r) THEN "read" ELSE "done"

\* main.py 128-132: _attempt_fix_once returns whatever second_result is
after_second_execution(r) == "done"

second_execution_message_swapped(r) ==
    IF has_error(r) THEN MsgFixOk ELSE MsgFixFailed

\* main.py 129-132
second_execution_message(r) == IF has_error(r) THEN MsgFixFailed ELSE MsgFixOk

next_position_tasks_first(p, t, f) ==
    IF t < Len(p) THEN <<t + 1, 1>>
    ELSE IF f < Len(p[t]) THEN <<t, f + 1>>
    ELSE NoPos

\* main.py 35, 37: the two for loops; NoPos when both are exhausted
next_position(p, t, f) ==
    IF f < Len(p[t]) THEN <<t, f + 1>>
    ELSE IF t < Len(p) THEN <<t + 1, 1>>
    ELSE NoPos

after_rewrite_execute_anyway(outcome) == "reexec"

\* main.py 117-128: the corrected content is executed only once written
after_rewrite(outcome) == IF outcome = "ok" THEN "reexec" ELSE "done"

-----------------------------------------------------------------------------
(* Orchestrator: initial state *)

OrchInit ==
    /\ user_request \in {"text", "blank"}
    /\ plan = <<>>
    /\ pc = "plan"
    /\ waiting = FALSE
    /\ inflight = {}
    /\ ti = 0
    /\ fi = 0
    /\ genCalls = <<>>
    /\ started = <<>>
    /\ finished = <<>>
    /\ results = <<>>
    /\ fixCalls = 0
    /\ writeCalls = 0
    /\ writes = 0
    /\ procLaunched = 0
    /\ original_code = "none"
    /\ fixed_code = "none"
    /\ report = <<>>
    /\ rootCreated = FALSE
    /\ exitStatus = -1

\* the orchestrator while the RPC client model runs
OrchIdle ==
    /\ user_request = "text"
    /\ plan = <<>>
    /\ pc = "idle"
    /\ waiting = FALSE
    /\ inflight = {}
    /\ ti = 0
    /\ fi = 0
    /\ genCalls = <<>>
    /\ started = <<>>
    /\ finished = <<>>
    /\ results = <<>>
    /\ fixCalls = 0
    /\ writeCalls = 0
    /\ writes = 0
    /\ procLaunched = 0
    /\ original_code = "none"
    /\ fixed_code = "none"
    /\ report = <<>>
    /\ rootCreated = FALSE
    /\ exitStatus = -1

curVars == <<results, fixCalls, writeCalls, writes, procLaunched,
             original_code, fixed_code, report>>
loopVars == <<ti, fi, started, finished>>

-----------------------------------------------------------------------------
(* Orchestrator: actions of AuraXSystem.run *)

\* main.py 21 -> planner.py 49-55: create_plan is awaited; a blank request
\* raises ValueError before any RPC is made
create_plan_start ==
    /\ pc = "plan" /\ ~waiting
    /\ IF user_request = "blank"
       THEN /\ pc' = after_create_plan("blank_request")
            /\ exitStatus' = IF pc' = "returned" THEN 1 ELSE exitStatus
            /\ UNCHANGED <<waiting, inflight>>
       ELSE /\ waiting' = TRUE
            /\ inflight' = inflight \cup {Op("rpc", "plan")}
            /\ UNCHANGED <<pc, exitStatus>>
    /\ UNCHANGED <<user_request, plan, genCalls, rootCreated, loopVars,
                   curVars, rpcVars, engVars, fnVars>>

\* main.py 21-27: the plan arrives, or the planner raised and run returns 1
create_plan_return ==
    /\ pc = "plan" /\ waiting
    /\ waiting' = FALSE
    /\ inflight' = inflight_after_return(inflight, Op("rpc", "plan"))
    /\ \/ \E outcome \in PlannerFailures \ {"blank_request"} :
             /\ pc' = after_create_plan(outcome)
             /\ exitStatus' = IF pc' = "returned" THEN 1 ELSE exitStatus
             /\ UNCHANGED <<plan, genCalls>>
       \/ \E p \in Plans :
             /\ plan' = p
             /\ genCalls' = [q \in Positions(p) |-> 0]
             /\ pc' = after_create_plan("plan")
             /\ UNCHANGED exitStatus
    /\ UNCHANGED <<user_request, rootCreated, loopVars, curVars, rpcVars, engVars, fnVars>>

\* main.py 33: project_root.mkdir dispatched to a worker thread
mkdir_start ==
    /\ pc = "mkdir" /\ ~waiting
    /\ waiting' = TRUE
    /\ inflight' = inflight \cup {Op("io", "mkdir")}
    /\ UNCHANGED <<user_request, plan, pc, genCalls, rootCreated, exitStatus,
                   loopVars, curVars, rpcVars, engVars, fnVars>>

\* main.py 33-37: mkdir is outside every try; on success the loops are entered
mkdir_return ==
    /\ pc = "mkdir" /\ waiting
    /\ waiting' = FALSE
    /\ inflight' = inflight_after_return(inflight, Op("io", "mkdir"))
    /\ \/ /\ pc' = "raised"
          /\ UNCHANGED <<rootCreated, loopVars>>
       \/ /\ rootCreated' = TRUE
          /\ pc' = "gen"
          /\ ti' = 1
          /\ fi' = 1
          /\ started' = <<<<1, 1>>>>
          /\ UNCHANGED finished
    /\ UNCHANGED <<user_request, plan, genCalls, exitStatus, curVars, rpcVars, engVars, fnVars>>

\* main.py 40 -> coder.py 35-53, 87-96: the RPC is made in a worker thread
generate_file_code_start ==
    /\ pc = "gen" /\ ~waiting
    /\ waiting' = TRUE
    /\ genCalls' = [genCalls EXCEPT ![pos] = @ + 1]
    /\ inflight' = inflight \cup {Op("rpc", "gen")}
    /\ UNCHANGED <<user_request, plan, pc, rootCreated, exitStatus, loopVars,
                   curVars, rpcVars, engVars, fnVars>>

\* main.py 39-47, coder.py 54-57: "raise" the RPC failed, "empty" nothing is
\* left after _clean_code_output (RuntimeError), "text" content is returned
generate_file_code_return ==
    /\ pc = "gen" /\ waiting
    /\ waiting' = FALSE
    /\ inflight' = inflight_after_return(inflight, Op("rpc", "gen"))
    /\ \E outcome \in {"raise", "empty", "text"} :
          /\ pc' = after_generate(outcome)
          /\ report' = IF outcome = "text" THEN report
                       ELSE Append(report, MsgGenFailed)
    /\ UNCHANGED <<user_request, plan, genCalls, rootCreated, exitStatus,
                   loopVars, results, fixCalls, writeCalls, writes,
                   procLaunched, original_code, fixed_code, rpcVars, engVars, fnVars>>

\* main.py 50, 118 -> coder.py 59-68: the write runs in a worker thread
write_file_start ==
    /\ pc \in {"write", "rewrite"} /\ ~waiting
    /\ writeCalls' = writeCalls + 1
    /\ IF resolved_target[file_name].ok
       THEN /\ waiting' = TRUE
            /\ inflight' = inflight \cup {Op("io", pc)}
            /\ UNCHANGED <<pc, report>>
       ELSE /\ pc' = IF pc = "write" THEN after_write("raise", file_name)
                     ELSE after_rewrite("raise")
            /\ report' = Append(report, IF pc = "write" THEN MsgWriteFailed
                                        ELSE MsgRewriteFailed)
            /\ UNCHANGED <<waiting, inflight>>
    /\ UNCHANGED <<user_request, plan, genCalls, rootCreated, exitStatus,
                   loopVars, results, fixCalls, writes, procLaunched,
                   original_code, fixed_code, rpcVars, engVars, fnVars>>

\* main.py 49-61: the first write of the file
write_file_return ==
    /\ pc = "write" /\ waiting
    /\ waiting' = FALSE
    /\ inflight' = inflight_after_return(inflight, Op("io", "write"))
    /\ \E outcome \in {"ok", "raise"} :
          /\ pc' = after_write(outcome, file_name)
          /\ writes' = IF outcome = "ok" THEN writes + 1 ELSE writes
          /\ report' = Append(report, IF outcome = "ok" THEN MsgCreated
                                      ELSE MsgWriteFailed)
    /\ UNCHANGED <<user_request, plan, genCalls, rootCreated, exitStatus,
                   loopVars, results, fixCalls, writeCalls, procLaunched,
                   original_code, fixed_code, rpcVars, engVars, fnVars>>

\* main.py 63-68, 128-132: what run / _attempt_fix_once do with a result
handle_result(r) ==
    /\ results' = Append(results, r)
    /\ IF pc = "exec"
       THEN /\ pc' = after_first_execution(r)
            /\ report' = IF has_error(r) THEN Append(report, MsgErrorDetected)
                         ELSE report
       ELSE /\ pc' = after_second_execution(r)
            /\ report' = Append(report, second_execution_message(r))

\* executor.py 33-46: the checks made before a child process exists
prelaunch_outcomes(name) ==
    LET r == resolved_target[name]
    IN  IF ~r.ok THEN {"Escape"}
        ELSE {"launched", "NotFound", "LaunchError"}
                 \cup (IF lower(path_suffix(r.path)) # DotPy
                       THEN {"UnsupportedKind"} ELSE {})

\* main.py 78-92 -> executor.py 33-46: run_python_file is called; it raises
\* before launching (caught by _execute_file) or launches the child
run_python_file_start ==
    /\ pc \in {"exec", "reexec"} /\ ~waiting
    /\ \E pre \in prelaunch_outcomes(file_name) :
          IF pre = "launched"
          THEN /\ waiting' = TRUE
               /\ procLaunched' = procLaunched + 1
               /\ inflight' = inflight \cup {Op("proc", pc)}
               /\ UNCHANGED <<pc, results, report>>
          ELSE /\ handle_result(fake_result)
               /\ UNCHANGED <<waiting, procLaunched, inflight>>
    /\ UNCHANGED <<user_request, plan, genCalls, rootCreated, exitStatus,
                   loopVars, fixCalls, writeCalls, writes, original_code,
                   fixed_code, rpcVars, engVars, fnVars>>

\* executor.py 48-54, 61-76: the child exited before the timeout
run_python_file_return ==
    /\ pc \in {"exec", "reexec"} /\ waiting
    /\ waiting' = FALSE
    /\ inflight' = inflight_after_return(inflight, Op("proc", pc))
    /\ \E rc \in ReturnCodes, err \in StderrTexts :
          handle_result(completed_result(rc, err))
    /\ UNCHANGED <<user_request, plan, genCalls, rootCreated, exitStatus,
                   loopVars, fixCalls, writeCalls, writes, procLaunched,
                   original_code, fixed_code, rpcVars, engVars, fnVars>>

\* executor.py 55-59, 64-76: the timeout fired; the child is killed and its
\* pipes are drained before the result is built
run_python_file_timeout ==
    /\ pc \in {"exec", "reexec"} /\ waiting
    /\ waiting' = FALSE
    /\ inflight' = inflight_after_return(inflight, Op("proc", pc))
    /\ \E err \in StderrTexts : handle_result(timed_out_result(err))
    /\ UNCHANGED <<user_request, plan, genCalls, rootCreated, exitStatus,
                   loopVars, fixCalls, writeCalls, writes, procLaunched,
                   original_code, fixed_code, rpcVars, engVars, fnVars>>

-----------------------------------------------------------------------------
(* Orchestrator: actions of AuraXSystem._attempt_fix_once *)

\* main.py 100-102: the file is read back in a worker thread
read_text_start ==
    /\ pc = "read" /\ ~waiting
    /\ waiting' = TRUE
    /\ inflight' = inflight \cup {Op("io", "read")}
    /\ UNCHANGED <<user_request, plan, pc, genCalls, rootCreated, exitStatus,
                   loopVars, curVars, rpcVars, engVars, fnVars>>

\* main.py 101-105: the content on disk ("blank" when nothing but whitespace
\* is left in the file), or the read raised
read_text_return ==
    /\ pc = "read" /\ waiting
    /\ waiting' = FALSE
    /\ inflight' = inflight_after_return(inflight, Op("io", "read"))
    /\ \/ /\ pc' = "done"
          /\ report' = Append(report, MsgCannotRead)
          /\ UNCHANGED original_code
       \/ \E content \in {"text", "blank"} :
             /\ original_code' = content
             /\ pc' = "fix"
             /\ UNCHANGED report
    /\ UNCHANGED <<user_request, plan, genCalls, rootCreated, exitStatus,
                   loopVars, results, fixCalls, writeCalls, writes,
                   procLaunched, fixed_code, rpcVars, engVars, fnVars>>

\* main.py 107-115 -> debugger.py 47-61, 84-92: fix_code is called; blank
\* original_code raises ValueError before any RPC, else the RPC is made in a
\* worker thread
fix_code_start ==
    /\ pc = "fix" /\ ~waiting
    /\ fixCalls' = fixCalls + 1
    /\ IF original_code = "blank"
       THEN /\ pc' = "done"
            /\ report' = Append(report, MsgDebuggerFailed)
            /\ UNCHANGED <<waiting, inflight>>
       ELSE /\ waiting' = TRUE
            /\ inflight' = inflight \cup {Op("rpc", "fix")}
            /\ UNCHANGED <<pc, report>>
    /\ UNCHANGED <<user_request, plan, genCalls, rootCreated, exitStatus,
                   loopVars, results, writeCalls, writes, procLaunched,
                   original_code, fixed_code, rpcVars, engVars, fnVars>>

\* main.py 107-115, debugger.py 61-65: "raise" the RPC failed, "empty" nothing
\* is left after _clean_code_output (RuntimeError), "text" corrected content
fix_code_return ==
    /\ pc = "fix" /\ waiting
    /\ waiting' = FALSE
    /\ inflight' = inflight_after_return(inflight, Op("rpc", "fix"))
    /\ \E outcome \in {"raise", "empty", "text"} :
          IF outcome = "text"
          THEN /\ fixed_code' = "text"
               /\ pc' = "rewrite"
               /\ UNCHANGED report
          ELSE /\ pc' = "done"
               /\ report' = Append(report, MsgDebuggerFailed)
               /\ UNCHANGED fixed_code
    /\ UNCHANGED <<user_request, plan, genCalls, rootCreated, exitStatus,
                   loopVars, results, fixCalls, writeCalls, writes,
                   procLaunched, original_code, rpcVars, engVars, fnVars>>

\* main.py 117-127: the corrected content is written back
rewrite_file_return ==
    /\ pc = "rewrite" /\ waiting
    /\ waiting' = FALSE
    /\ inflight' = inflight_after_return(inflight, Op("io", "rewrite"))
    /\ \E outcome \in {"ok", "raise"} :
          /\ pc' = after_rewrite(outcome)
          /\ writes' = IF outcome = "ok" THEN writes + 1 ELSE writes
          /\ report' = Append(report, IF outcome = "ok" THEN MsgRerun
                                      ELSE MsgRewriteFailed)
    /\ UNCHANGED <<user_request, plan, genCalls, rootCreated, exitStatus,
                   loopVars, results, fixCalls, writeCalls, procLaunched,
                   original_code, fixed_code, rpcVars, engVars, fnVars>>

-----------------------------------------------------------------------------
(* Orchestrator: the for loops *)

\* main.py 35-38: the body ended for the current file and another file is
\* left; the loops bind it and the body starts afresh
for_next ==
    /\ pc = "done" /\ ~waiting
    /\ next_position(plan, ti, fi) # NoPos
    /\ finished' = Append(finished, pos)
    /\ ti' = next_position(plan, ti, fi)[1]
    /\ fi' = next_position(plan, ti, fi)[2]
    /\ started' = Append(started, next_position(plan, ti, fi))
    /\ pc' = "gen"
    /\ results' = <<>>
    /\ fixCalls' = 0
    /\ writeCalls' = 0
    /\ writes' = 0
    /\ procLaunched' = 0
    /\ original_code' = "none"
    /\ fixed_code' = "none"
    /\ report' = <<>>
    /\ UNCHANGED <<user_request, plan, waiting, inflight, genCalls,
                   rootCreated, exitStatus, rpcVars, engVars, fnVars>>

\* main.py 74-76: both loops are exhausted; the completion step
run_completed ==
    /\ pc = "done" /\ ~waiting
    /\ next_position(plan, ti, fi) = NoPos
    /\ finished' = Append(finished, pos)
    /\ pc' = "completed"
    /\ exitStatus' = 0
    /\ UNCHANGED <<user_request, plan, waiting, inflight, genCalls,
                   rootCreated, ti, fi, started, curVars, rpcVars, engVars, fnVars>>

Next ==
    \/ create_plan_start
    \/ create_plan_return
    \/ mkdir_start
    \/ mkdir_return
    \/ generate_file_code_start
    \/ generate_file_code_return
    \/ write_file_start
    \/ write_file_return
    \/ run_python_file_start
    \/ run_python_file_return
    \/ run_python_file_timeout
    \/ read_text_start
    \/ read_text_return
    \/ fix_code_start
    \/ fix_code_return
    \/ rewrite_file_return
    \/ for_next
    \/ run_completed

-----------------------------------------------------------------------------
(* Engine: the child process *)

\* the child process: alive until it exits or is killed, the exit status
\* and stderr it would end with, whether process.kill() was called, and the
\* process it spawned: none, one that kept the child's pipes ("piped") or
\* one that closed them ("detached")
Child(alive, status, err, killed, desc, desc_alive) ==
    [alive |-> alive, status |-> status, stderr |-> err, killed |-> killed,
     desc |-> desc, desc_alive |-> desc_alive]
NoChild == Child(FALSE, 0, <<>>, FALSE, "none", FALSE)
NoExecutionResult == ExecutionResult(0, <<>>, FALSE)

\* the engine and the coder's writer while another model runs
EngIdle ==
    /\ en_fs = {}
    /\ en_fs0 = {}
    /\ en_op = "none"
    /\ en_name = <<>>
    /\ en_path = <<>>
    /\ en_state = "idle"
    /\ en_error = "none"
    /\ en_child = NoChild
    /\ en_launched = 0
    /\ en_result = NoExecutionResult

\* no function is applied while another model runs
FnIdle ==
    /\ fn_op = "none"
    /\ fn_in = <<>>
    /\ fn_state = "input"
    /\ fn_out = <<>>

-----------------------------------------------------------------------------
(* RPC: response bodies and results *)

\* a field of a JSON object: absent, a string, or a value of another type
Field(type, text) == [type |-> type, text |-> text]
Absent == Field("absent", <<>>)
NonString == Field("other", <<>>)
Str(text) == Field("str", text)

\* dict.get(key, "") when the default is the empty string
get_or_empty(field) == IF field.type = "absent" THEN Str(<<>>) ELSE field

\* the error fields and response fields a server can send
ErrorFields == { Absent, NonString, Str(<<" ">>), Str(<<" ", "e", "\n">>) }
ResponseFields == { Absent, NonString, Str(<<" ", "\n">>), Str(<<" ", "x", "\n">>) }

\* the "models" field of /api/tags: absent, not a list, a list naming the
\* model asked for, a list not naming it
ModelsFields == {"absent", "not_list", "lists_model", "other_models"}

Body(error, response, models) ==
    [error |-> error, response |-> response, models |-> models]
NoBody == Body(Absent, Absent, "absent")

\* what a public method ended in: status "none" while it runs, "returned"
\* or "raised"; ok and msg for check_server / check_model, text for generate
Result(status, error, ok, text) ==
    [status |-> status, error |-> error, ok |-> ok, text |-> text]
NoResult == Result("none", "none", FALSE, <<>>)

\* the RPC client while the orchestrator model runs
RpcIdle ==
    /\ rq_cfg_max_retries = 0
    /\ rq_max_retries = 0
    /\ rq_cfg_base = 0
    /\ rq_base = 0
    /\ rq_requests_new = TRUE
    /\ rq_retry_count = <<>>
    /\ rq_attempt = 0
    /\ rq_attempts = 0
    /\ rq_sleeps = <<>>
    /\ rq_state = "idle"
    /\ rq_failures = <<>>
    /\ rq_error = "none"
    /\ rq_client = "OllamaClient"
    /\ rq_api = "none"
    /\ rq_body = NoBody
    /\ rq_result = NoResult

Init == OrchInit /\ RpcIdle /\ EngIdle /\ FnIdle

Spec == Init /\ [][Next]_vars

\* every awaited call returns or raises, and run takes its next step
FairSpec == Spec /\ WF_vars(Next)

-----------------------------------------------------------------------------
(* RPC client: OllamaClient._request_json *)

max0(n) == IF n < 0 THEN 0 ELSE n

RECURSIVE pow2(_)
pow2(n) == IF n = 0 THEN 1 ELSE 2 * pow2(n - 1)

stored_max_retries_unclamped(cfg) == cfg

\* ollama_client.py 34: self.max_retries = max(0, max_retries)
stored_max_retries(cfg) == max0(cfg)

\* ollama_client.py 35: self.retry_backoff_seconds = max(0.0, ...)
stored_backoff(cfg) == max0(cfg)

effective_retries_unclamped(max_retries, retry_count) ==
    IF retry_count = <<>> THEN max_retries ELSE retry_count[1]

\* ollama_client.py 98
effective_retries(max_retries, retry_count) ==
    IF retry_count = <<>> THEN max_retries ELSE max0(retry_count[1])
\* a constant delay in place of the exponential one
backoff_constant(base, attempt) == base

\* ollama_client.py 117: backoff = self.retry_backoff_seconds * (2**attempt)
backoff(base, attempt) == base * pow2(attempt)

RetryCounts == {<<>>} \cup { <<n>> : n \in (-1)..MaxRetriesCfg }

\* backoff bases a caller configures, in half seconds (3 is the default 1.5 s)
BackoffBases == {-1, 0, 1, 3}

\* what one session.request / raise_for_status / response.json can end in:
\* a connection failure, a timeout, a non-2xx status, a body that is not
\* JSON, a JSON body that is not an object, an object
AttemptOutcomes == {"connection", "timeout", "http_status", "non_json",
                    "not_dict", "ok"}

\* ollama_client.py 114, 129: the outcomes caught as requests.RequestException
is_request_exception(outcome, requests_new) ==
    \/ outcome \in {"connection", "timeout", "http_status"}
    \/ outcome = "non_json" /\ requests_new
\* generate without the blank-response check of lines 60-61
generate_outcome_unchecked(state, error, body) ==
    IF state = "raised" THEN Result("raised", error, FALSE, <<>>)
    ELSE Result("returned", "none", TRUE,
                strip(get_or_empty(body.response).text))

\* ollama_client.py 54-62: generate after _request_json returned body, or
\* the error _request_json raised passing through
generate_outcome(state, error, body) ==
    IF state = "raised" THEN Result("raised", error, FALSE, <<>>)
    ELSE IF body.error.type = "str" /\ strip(body.error.text) # <<>>
    THEN Result("raised", "api_error", FALSE, strip(body.error.text))
    ELSE IF get_or_empty(body.response).type # "str"
            \/ strip(get_or_empty(body.response).text) = <<>>
    THEN Result("raised", "empty_response", FALSE, <<>>)
    ELSE Result("returned", "none", TRUE, strip(body.response.text))

\* ollama_client.py 64-69
check_server_outcome(state, error, body) ==
    IF state = "raised" THEN Result("returned", error, FALSE, <<>>)
    ELSE Result("returned", "none", TRUE, <<>>)

\* ollama_client.py 71-89
check_model_outcome(state, error, body) ==
    IF state = "raised" THEN Result("returned", error, FALSE, <<>>)
    ELSE IF body.models = "not_list"
    THEN Result("returned", "unexpected_model_list", FALSE, <<>>)
    ELSE IF body.models = "lists_model"
    THEN Result("returned", "none", TRUE, <<>>)
    ELSE Result("returned", "model_not_found", FALSE, <<>>)

\* what the public method does with the outcome of _request_json
api_outcome(api, state, error, body) ==
    CASE api = "generate" -> generate_outcome(state, error, body)
      [] api = "check_server" -> check_server_outcome(state, error, body)
      [] api = "check_model" -> check_model_outcome(state, error, body)
      [] OTHER -> Result(state, error, state = "returned", <<>>)
\* every method leaving retry_count at None
retry_counts_of_default(api) == {<<>>}

\* ollama_client.py 54, 66, 73: the retry_count each public method passes;
\* _request_json itself takes any
retry_counts_of(api) ==
    CASE api = "generate" -> {<<>>}
      [] api \in {"check_server", "check_model"} -> {<<0>>}
      [] OTHER -> RetryCounts

\* the bodies that matter to the method when the attempt got a JSON object
bodies_for(api, outcome) ==
    IF outcome # "ok" THEN {NoBody}
    ELSE CASE api = "generate" ->
                  { Body(e, r, "absent") : e \in ErrorFields, r \in ResponseFields }
           [] api = "check_model" ->
                  { Body(Absent, Absent, m) : m \in ModelsFields }
           [] OTHER -> {NoBody}

OllamaApis == {"_request_json", "generate", "check_server", "check_model"}

\* ollama_client.py 21-36: the client as constructed
ClientInit ==
    /\ rq_cfg_max_retries \in (-1)..MaxRetriesCfg
    /\ rq_max_retries = stored_max_retries(rq_cfg_max_retries)
    /\ rq_cfg_base \in BackoffBases
    /\ rq_base = stored_backoff(rq_cfg_base)
    /\ rq_requests_new \in BOOLEAN
    /\ rq_retry_count = <<>>
    /\ rq_attempt = 0
    /\ rq_attempts = 0
    /\ rq_sleeps = <<>>
    /\ rq_state = "idle"
    /\ rq_failures = <<>>
    /\ rq_error = "none"
    /\ rq_client = "OllamaClient"
    /\ rq_api = "none"
    /\ rq_body = NoBody
    /\ rq_result = NoResult

\* ollama_client.py 38-54, 64-66, 71-73, 91-99: a public method is called
\* and enters _request_json
request_json_call ==
    /\ rq_state = "idle" /\ rq_client = "OllamaClient"
    /\ \E api \in OllamaApis :
          /\ rq_api' = api
          /\ \E rc \in retry_counts_of(api) : rq_retry_count' = rc
    /\ rq_state' = "running"
    /\ rq_attempt' = 0
    /\ UNCHANGED <<rq_cfg_max_retries, rq_max_retries, rq_cfg_base, rq_base,
                   rq_requests_new, rq_attempts, rq_sleeps, rq_failures,
                   rq_error, rq_client, rq_body, rq_result, orchVars, engVars, fnVars>>

\* _request_json returns or raises, and the public method finishes
request_json_ends(state, error, body) ==
    /\ rq_state' = state
    /\ rq_error' = error
    /\ rq_body' = body
    /\ rq_result' = api_outcome(rq_api, state, error, body)

\* ollama_client.py 101-132: one iteration of the for loop, or line 132 when
\* range(retries + 1) is exhausted
request_json_attempt ==
    /\ rq_state = "running" /\ rq_client = "OllamaClient"
    /\ LET retries == effective_retries(rq_max_retries, rq_retry_count)
       IN  IF rq_attempt >= retries + 1
           THEN /\ request_json_ends("raised", "request_failed", NoBody)
                /\ UNCHANGED <<rq_attempt, rq_attempts, rq_sleeps, rq_failures>>
           ELSE \E outcome \in AttemptOutcomes :
                \E body \in bodies_for(rq_api, outcome) :
                /\ rq_attempts' = rq_attempts + 1
                /\ rq_failures' = IF outcome = "ok" THEN rq_failures
                                  ELSE Append(rq_failures, outcome)
                /\ IF outcome = "ok"
                   THEN /\ request_json_ends("returned", "none", body)
                        /\ UNCHANGED <<rq_attempt, rq_sleeps>>
                   ELSE IF is_request_exception(outcome, rq_requests_new)
                   THEN IF rq_attempt < retries
                        THEN /\ rq_sleeps' =
                                  IF backoff(rq_base, rq_attempt) # 0
                                  THEN Append(rq_sleeps, backoff(rq_base, rq_attempt))
                                  ELSE rq_sleeps
                             /\ rq_attempt' = rq_attempt + 1
                             /\ UNCHANGED <<rq_state, rq_error, rq_body, rq_result>>
                        ELSE /\ request_json_ends(
                                    "raised",
                                    IF outcome = "timeout" THEN "timed_out"
                                    ELSE "request_failed",
                                    NoBody)
                             /\ UNCHANGED <<rq_attempt, rq_sleeps>>
                   ELSE /\ request_json_ends(
                               "raised",
                               IF outcome = "non_json" THEN "non_json"
                               ELSE "unexpected_payload",
                               NoBody)
                        /\ UNCHANGED <<rq_attempt, rq_sleeps>>
    /\ UNCHANGED <<rq_cfg_max_retries, rq_max_retries, rq_cfg_base, rq_base,
                   rq_requests_new, rq_retry_count, rq_client, rq_api, orchVars, engVars, fnVars>>

RpcNext ==
    \/ request_json_call
    \/ request_json_attempt

RpcInit == OrchIdle /\ ClientInit /\ EngIdle /\ FnIdle

RpcSpec == RpcInit /\ [][RpcNext]_vars

-----------------------------------------------------------------------------
(* Agents: _post_to_ollama of PlannerAgent, DebuggerAgent and CoderAgent *)

Agents == {"PlannerAgent", "DebuggerAgent", "CoderAgent"}

\* coder.py 109-128 has no for loop; planner.py 93 and debugger.py 96 do
has_retry_loop(client) == client # "CoderAgent"

\* planner.py 104-112, debugger.py 107-115, coder.py 125-128: what the
\* agent makes of a 2xx body that is a JSON object
agent_body_outcome(client, body) ==
    IF has_retry_loop(client)
       /\ body.error.type = "str" /\ strip(body.error.text) # <<>>
    THEN Result("raised", "api_error", FALSE, strip(body.error.text))
    ELSE IF get_or_empty(body.response).type # "str"
    THEN Result("raised",
                IF client = "PlannerAgent" THEN "empty_response"
                ELSE "missing_response", FALSE, <<>>)
    ELSE IF client = "PlannerAgent"
            /\ strip(get_or_empty(body.response).text) = <<>>
    THEN Result("raised", "empty_response", FALSE, <<>>)
    ELSE Result("returned", "none", TRUE,
                strip(get_or_empty(body.response).text))

AgentBodies == { Body(e, r, "absent") : e \in ErrorFields, r \in ResponseFields }

\* planner.py 27-47, debugger.py 25-45, coder.py 20-33: the agent as
\* constructed; CoderAgent takes no max_retries and no backoff
AgentInit ==
    /\ rq_client \in Agents
    /\ rq_cfg_max_retries \in (-1)..MaxRetriesCfg
    /\ rq_max_retries = stored_max_retries(rq_cfg_max_retries)
    /\ rq_cfg_base \in BackoffBases
    /\ rq_base = stored_backoff(rq_cfg_base)
    /\ rq_requests_new \in BOOLEAN
    /\ rq_retry_count = <<>>
    /\ rq_attempt = 0
    /\ rq_attempts = 0
    /\ rq_sleeps = <<>>
    /\ rq_state = "idle"
    /\ rq_failures = <<>>
    /\ rq_error = "none"
    /\ rq_api = "none"
    /\ rq_body = NoBody
    /\ rq_result = NoResult

\* planner.py 81-89, debugger.py 84-92, coder.py 87-96: _generate hands
\* _post_to_ollama to a worker thread
post_to_ollama_call ==
    /\ rq_state = "idle" /\ rq_client \in Agents
    /\ rq_api' = "_post_to_ollama"
    /\ rq_state' = "running"
    /\ rq_attempt' = 0
    /\ UNCHANGED <<rq_cfg_max_retries, rq_max_retries, rq_cfg_base, rq_base,
                   rq_requests_new, rq_retry_count, rq_attempts, rq_sleeps,
                   rq_failures, rq_error, rq_client, rq_body, rq_result,
                   orchVars, engVars, fnVars>>

\* _post_to_ollama returns or raises
post_to_ollama_ends(result, body) ==
    /\ rq_state' = result.status
    /\ rq_error' = result.error
    /\ rq_body' = body
    /\ rq_result' = result

\* planner.py 93-132, debugger.py 96-135: one iteration of the for loop, or
\* the last line when range(max_retries + 1) is exhausted
post_to_ollama_attempt ==
    /\ rq_state = "running" /\ rq_client \in Agents
    /\ has_retry_loop(rq_client)
    /\ IF rq_attempt >= rq_max_retries + 1
       THEN /\ post_to_ollama_ends(
                   Result("raised", "request_failed", FALSE, <<>>), NoBody)
            /\ UNCHANGED <<rq_attempt, rq_attempts, rq_sleeps, rq_failures>>
       ELSE \E outcome \in AttemptOutcomes :
            \E body \in IF outcome = "ok" THEN AgentBodies ELSE {NoBody} :
            /\ rq_attempts' = rq_attempts + 1
            /\ rq_failures' = IF outcome = "ok" THEN rq_failures
                              ELSE Append(rq_failures, outcome)
            /\ IF outcome = "ok"
               THEN /\ post_to_ollama_ends(
                           agent_body_outcome(rq_client, body), body)
                    /\ UNCHANGED <<rq_attempt, rq_sleeps>>
               ELSE IF is_request_exception(outcome, rq_requests_new)
               THEN IF rq_attempt < rq_max_retries
                    THEN /\ rq_sleeps' =
                              IF backoff(rq_base, rq_attempt) # 0
                              THEN Append(rq_sleeps, backoff(rq_base, rq_attempt))
                              ELSE rq_sleeps
                         /\ rq_attempt' = rq_attempt + 1
                         /\ UNCHANGED <<rq_state, rq_error, rq_body, rq_result>>
                    ELSE /\ post_to_ollama_ends(
                                Result("raised",
                                       IF outcome = "timeout" THEN "timed_out"
                                       ELSE "request_failed", FALSE, <<>>),
                                NoBody)
                         /\ UNCHANGED <<rq_attempt, rq_sleeps>>
               ELSE /\ post_to_ollama_ends(
                           Result("raised",
                                  IF outcome = "non_json" THEN "non_json"
                                  ELSE "unexpected_payload", FALSE, <<>>),
                           NoBody)
                    /\ UNCHANGED <<rq_attempt, rq_sleeps>>
    /\ UNCHANGED <<rq_cfg_max_retries, rq_max_retries, rq_cfg_base, rq_base,
                   rq_requests_new, rq_retry_count, rq_client, rq_api, orchVars, engVars, fnVars>>

\* coder.py 109-128: the one request CoderAgent makes
coder_post_to_ollama ==
    /\ rq_state = "running" /\ rq_client \in Agents
    /\ ~has_retry_loop(rq_client)
    /\ \E outcome \in AttemptOutcomes :
       \E body \in IF outcome = "ok" THEN AgentBodies ELSE {NoBody} :
          /\ rq_attempts' = rq_attempts + 1
          /\ rq_failures' = IF outcome = "ok" THEN rq_failures
                            ELSE Append(rq_failures, outcome)
          /\ post_to_ollama_ends(
                CASE outcome \in {"connection", "timeout", "http_status"} ->
                         Result("raised", "request_failed", FALSE, <<>>)
                  [] outcome = "non_json" ->
                         Result("raised", "non_json", FALSE, <<>>)
                  [] outcome = "not_dict" ->
                         Result("raised", "attribute_error", FALSE, <<>>)
                  [] OTHER -> agent_body_outcome(rq_client, body),
                body)
    /\ UNCHANGED <<rq_cfg_max_retries, rq_max_retries, rq_cfg_base, rq_base,
                   rq_requests_new, rq_retry_count, rq_attempt, rq_sleeps,
                   rq_client, rq_api, orchVars, engVars, fnVars>>

AgentNext ==
    \/ post_to_ollama_call
    \/ post_to_ollama_attempt
    \/ coder_post_to_ollama

AgentSpecInit == OrchIdle /\ AgentInit /\ EngIdle /\ FnIdle

AgentSpec == AgentSpecInit /\ [][AgentNext]_vars

-----------------------------------------------------------------------------
(* Engine: one call of CoderAgent.write_file or run_python_file *)

ProjectRoot == resolve(project_path)

\* file_name arguments: a plain name, a padded one, a non-Python one, a
\* hidden file named ".py" (which has no suffix), one that climbs out of the
\* project, one with ".." that stays inside, one that climbs out and comes
\* back, an absolute path outside the project and an absolute path inside it
EngineNames ==
    { <<"a", ".", "p", "y">>,
      <<" ", "a", ".", "p", "y", "\n">>,
      <<"a", ".", "t">>,
      <<".", "p", "y">>,
      <<".", ".", "/", "a", ".", "p", "y">>,
      <<"d", "/", ".", ".", "/", "a", ".", "p", "y">>,
      <<".", ".", "/", "p", "/", "a", ".", "p", "y">>,
      <<"/", "e", ".", "p", "y">>,
      <<"/", "w", "/">> \o PROJECTS_ROOT \o <<"/", "p", "/", "a", ".", "p", "y">> }

\* the files that can be on disk before the call
FsCandidates ==
    { ProjectRoot \o << <<"a", ".", "p", "y">> >>,
      ProjectRoot \o << <<"a", ".", "t">> >>,
      ProjectRoot \o << <<".", "p", "y">> >>,
      Cwd \o <<PROJECTS_ROOT, <<"a", ".", "p", "y">> >>,
      << <<"e", ".", "p", "y">> >> }

DescendantKinds == {"none", "piped", "detached"}

EngineInit ==
    /\ en_fs \in SUBSET FsCandidates
    /\ en_fs0 = en_fs
    /\ en_op = "none"
    /\ en_name = <<>>
    /\ en_path = <<>>
    /\ en_state = "idle"
    /\ en_error = "none"
    /\ en_child = NoChild
    /\ en_launched = 0
    /\ en_result = NoExecutionResult

\* the call raised before it touched the disk or created a process
engine_raises(error, path) ==
    /\ en_state' = "raised"
    /\ en_error' = error
    /\ en_path' = path
    /\ UNCHANGED <<en_fs, en_child, en_launched, en_result>>

\* coder.py 59-68, 141-150: write_file resolves the path, creates the
\* parent directories and writes the text in a worker thread
write_file ==
    /\ en_state = "idle"
    /\ \E name \in EngineNames :
          /\ en_op' = "write_file"
          /\ en_name' = name
          /\ LET r == resolve_project_path(project_path, strip(name))
             IN  IF ~r.ok THEN engine_raises("escape", <<>>)
                 ELSE IF is_dir(r.path, en_fs)
                         \/ \E q \in parents(r.path) : q \in en_fs
                 THEN engine_raises("os_error", r.path)
                 ELSE /\ en_fs' = en_fs \cup {r.path}
                      /\ en_path' = r.path
                      /\ en_state' = "returned"
                      /\ UNCHANGED <<en_error, en_child, en_launched,
                                     en_result>>
    /\ UNCHANGED <<en_fs0, orchVars, rpcVars, fnVars>>

\* the checks of run_python_file with the extension looked at before the
\* existence of the file
run_python_file_checks_suffix_first(r, fs) ==
    IF ~r.ok THEN "escape"
    ELSE IF lower(path_suffix(r.path)) # DotPy THEN "unsupported_kind"
    ELSE IF ~exists(r.path, fs) THEN "not_found"
    ELSE "none"

\* executor.py 34-38: the error run_python_file raises before it creates a
\* child, "none" when it goes on; r is what _resolve_project_path gave
run_python_file_checks(r, fs) ==
    IF ~r.ok THEN "escape"
    ELSE IF ~exists(r.path, fs) THEN "not_found"
    ELSE IF lower(path_suffix(r.path)) # DotPy THEN "unsupported_kind"
    ELSE "none"

\* executor.py 33-46: run_python_file up to the creation of the child
run_python_file_call ==
    /\ en_state = "idle"
    /\ \E name \in EngineNames :
          /\ en_op' = "run_python_file"
          /\ en_name' = name
          /\ LET r == resolve_project_path(project_path, strip(name))
                 error == run_python_file_checks(r, en_fs)
             IN  IF error # "none"
                 THEN engine_raises(error, IF r.ok THEN r.path ELSE <<>>)
                 ELSE \/ engine_raises("launch_error", r.path)
                      \/ /\ \E status \in ReturnCodes, err \in StderrTexts,
                               desc \in DescendantKinds :
                               en_child' = Child(TRUE, status, err, FALSE,
                                                 desc, desc # "none")
                         /\ en_launched' = en_launched + 1
                         /\ en_path' = r.path
                         /\ en_state' = "running"
                         /\ UNCHANGED <<en_fs, en_error, en_result>>
    /\ UNCHANGED <<en_fs0, orchVars, rpcVars, fnVars>>

\* both pipes of the child are at end of file: the child is gone and so is
\* every process that inherited them
pipes_closed(c) == ~c.alive /\ (c.desc # "piped" \/ ~c.desc_alive)

\* the child exits on its own
child_exits ==
    /\ en_state = "running" /\ en_child.alive
    /\ en_child' = [en_child EXCEPT !.alive = FALSE]
    /\ UNCHANGED <<en_fs, en_fs0, en_op, en_name, en_path, en_state,
                   en_error, en_launched, en_result, orchVars, rpcVars, fnVars>>

\* the process the child spawned exits on its own
descendant_exits ==
    /\ en_state \in {"running", "draining"} /\ en_child.desc_alive
    /\ en_child' = [en_child EXCEPT !.desc_alive = FALSE]
    /\ UNCHANGED <<en_fs, en_fs0, en_op, en_name, en_path, en_state,
                   en_error, en_launched, en_result, orchVars, rpcVars, fnVars>>

\* executor.py 48-54, 61-76: communicate() finished before the timeout
communicate_returns ==
    /\ en_state = "running" /\ pipes_closed(en_child)
    /\ en_result' = completed_result(en_child.status, en_child.stderr)
    /\ en_state' = "returned"
    /\ UNCHANGED <<en_fs, en_fs0, en_op, en_name, en_path, en_error,
                   en_child, en_launched, orchVars, rpcVars, fnVars>>

\* executor.py 55-56: wait_for raised TimeoutError; process.kill() signals
\* the child and nothing else
timeout_kills_child ==
    /\ en_state = "running" /\ ~pipes_closed(en_child)
    /\ en_child' = [en_child EXCEPT !.alive = FALSE, !.killed = TRUE]
    /\ en_state' = "draining"
    /\ UNCHANGED <<en_fs, en_fs0, en_op, en_name, en_path, en_error,
                   en_launched, en_result, orchVars, rpcVars, fnVars>>

\* executor.py 57-76: the second communicate() finished; stderr holds what
\* the child had written when it was killed
drain_returns ==
    /\ en_state = "draining" /\ pipes_closed(en_child)
    /\ \E err \in {<<>>, en_child.stderr} :
          en_result' = timed_out_result(err)
    /\ en_state' = "returned"
    /\ UNCHANGED <<en_fs, en_fs0, en_op, en_name, en_path, en_error,
                   en_child, en_launched, orchVars, rpcVars, fnVars>>

EngineNext ==
    \/ write_file
    \/ run_python_file_call
    \/ child_exits
    \/ descendant_exits
    \/ communicate_returns
    \/ timeout_kills_child
    \/ drain_returns

EngineSpecInit == OrchIdle /\ RpcIdle /\ EngineInit /\ FnIdle

EngineSpec == EngineSpecInit /\ [][EngineNext]_vars

\* the event loop resumes run_python_file whenever what it awaits is ready:
\* communicate() at end of file of both pipes, wait_for at its timeout.  A
\* process exits when it chooses to: child_exits and descendant_exits are
\* under no fairness.
FairEngineSpec ==
    /\ EngineSpec
    /\ WF_vars(communicate_returns)
    /\ WF_vars(timeout_kills_child)
    /\ WF_vars(drain_returns)

-----------------------------------------------------------------------------
(* Planner: _validate_plan *)

\* the largest number of tasks in the JSON object the model answered with
MaxRawTasks == 2

\* a JSON value that is not a string, with its str(): None, and what
\* dict.get gives for a missing key
NoneValue == Field("other", <<"N", "o", "n", "e">>)

\* a JSON list
List(items) == [type |-> "list", items |-> items]

\* a JSON object that stands for a task
RawTask(description, files_to_create, step_number) ==
    [type |-> "dict", description |-> description,
     files_to_create |-> files_to_create, step_number |-> step_number]

\* an int under the key step_number
IntValue(n) == [type |-> "int", value |-> n]

\* tasks as the model may list them: a good one with padded texts, one with
\* blank names among the good ones and a name that is not a string, one
\* with a blank description, one whose description is not a string, one
\* whose files_to_create is not a list, one with an empty list, one with
\* blank names only, and an entry that is not an object
RawTasks ==
    { RawTask(Str(<<" ", "d", "\n">>),
              List(<<Str(<<" ", "a", ".", "p", "y">>)>>), IntValue(7)),
      RawTask(Str(<<"e">>),
              List(<<Str(<<"b", ".", "t">>), Str(<<" ">>), NoneValue,
                     Str(<<"c", ".", "p", "y", "\n">>)>>), NoneValue),
      RawTask(Str(<<" ", "\n">>),
              List(<<Str(<<"a", ".", "p", "y">>)>>), IntValue(7)),
      RawTask(NoneValue, List(<<Str(<<"a", ".", "p", "y">>)>>), NoneValue),
      RawTask(Str(<<"d">>), Str(<<"a", ".", "p", "y">>), NoneValue),
      RawTask(Str(<<"d">>), List(<<>>), NoneValue),
      RawTask(Str(<<"d">>), List(<<Str(<<>>), Str(<<" ">>)>>), NoneValue),
      Str(<<"t">>) }

RawTaskLists ==
    UNION { [1..n -> RawTasks] : n \in 0..MaxRawTasks }

\* what _safe_parse_json hands to _validate_plan: None, or an object
RawPlans ==
    {NoneValue} \cup
    [type : {"dict"},
     project_name : {Str(<<" ", "p">>), Str(<<" ">>), NoneValue},
     tasks : {NoneValue} \cup { List(t) : t \in RawTaskLists },
     tech_stack : {NoneValue, List(<<Str(<<" ", "x">>), Str(<<>>)>>)}]

\* isinstance(value, str)
is_str(value) == value.type = "str"

\* isinstance(value, list)
is_list(value) == value.type = "list"

\* str(value)
py_str(value) == value.text

\* the list of names with nothing stripped and nothing left out
RECURSIVE normalized_files_unfiltered(_)
normalized_files_unfiltered(items) ==
    IF items = <<>> THEN <<>>
    ELSE <<py_str(Head(items))>> \o normalized_files_unfiltered(Tail(items))

\* planner.py 187-191 and 210-212: [str(x).strip() for x in items
\* if str(x).strip()]
RECURSIVE normalized_files(_)
normalized_files(items) ==
    IF items = <<>> THEN <<>>
    ELSE LET text == strip(py_str(Head(items)))
         IN  (IF text # <<>> THEN <<text>> ELSE <<>>)
                 \o normalized_files(Tail(items))

\* planner.py 176-193: the conditions under which the loop reaches append
task_is_kept(task) ==
    /\ task.type = "dict"
    /\ is_str(task.description) /\ strip(task.description.text) # <<>>
    /\ is_list(task.files_to_create)
    /\ normalized_files(task.files_to_create.items) # <<>>

\* planner.py 195-205: the task appended
normalized_task(task, index) ==
    [step_number |-> IF task.step_number.type = "int"
                     THEN task.step_number.value ELSE index,
     description |-> strip(task.description.text),
     files_to_create |-> normalized_files(task.files_to_create.items)]

\* planner.py 175-205: the loop over enumerate(tasks, start=index)
RECURSIVE normalized_tasks(_, _)
normalized_tasks(tasks, index) ==
    IF tasks = <<>> THEN <<>>
    ELSE (IF task_is_kept(Head(tasks))
          THEN <<normalized_task(Head(tasks), index)>> ELSE <<>>)
             \o normalized_tasks(Tail(tasks), index + 1)

\* validate_plan when it raised
PlanError(error) == [ok |-> FALSE, error |-> error]

\* planner.py 166-222: PlannerAgent._validate_plan; None has no get
validate_plan(raw) ==
    IF raw.type # "dict" THEN PlanError("AttributeError")
    ELSE IF ~is_str(raw.project_name) \/ strip(raw.project_name.text) = <<>>
    THEN PlanError("project_name")
    ELSE IF ~is_list(raw.tasks) \/ raw.tasks.items = <<>>
    THEN PlanError("tasks")
    ELSE IF normalized_tasks(raw.tasks.items, 1) = <<>>
    THEN PlanError("no valid tasks")
    ELSE [ok |-> TRUE,
          project_name |-> strip(raw.project_name.text),
          tech_stack |-> IF is_list(raw.tech_stack)
                         THEN normalized_files(raw.tech_stack.items)
                         ELSE <<>>,
          tasks |-> normalized_tasks(raw.tasks.items, 1)]

-----------------------------------------------------------------------------
(* Functions applied to given arguments *)

\* texts a child process can write to its standard output
StdoutTexts == { <<>>, <<" ">>, <<"E", "\n">> }

\* the fields of ExecutionResult that hold data of the child process
ExecutionResults ==
    [return_code : ReturnCodes \cup {TimeoutReturnCode},
     stdout : StdoutTexts, stderr : StderrTexts, timed_out : BOOLEAN]

\* project names as any caller may pass them to the resolvers: plain, padded,
\* empty, with a separator, climbing out of projects/, absolute
ResolverProjectNames ==
    { <<"p">>, <<" ", "p", "\n">>, <<>>, <<"p", "/", "q">>,
      <<".", ".", "/", "p">>, <<"/", "e">> }

\* plan["project_name"] as _validate_plan returns it (stripped, not blank)
PlanProjectNames ==
    { <<"p">>, <<"Q", "-", "7", "_">>, <<"a", " ", "b">>,
      <<"a", "/", ".", "/", "b">>, <<".", ".", "/", "x">>,
      <<"_", "_", "p", "_">>, <<"_">>, <<"/", " ", "/">>, <<"/", "e">>,
      <<"é">>, <<"p", "é", "!", "q">> }

\* the characters of the strings sanitized: a letter, "_", "-", whitespace,
\* a separator and a letter that is not ASCII
SanitizeAlphabet == {"p", "_", "-", " ", "/", "é"}

\* every string of these characters up to MaxNameLen, and generated_project
SanitizeInputs ==
    UNION { [1..n -> SanitizeAlphabet] : n \in 0..MaxNameLen }
        \cup {GeneratedProject}

\* the arguments a function can be applied to
FnInputs(op) ==
    CASE op = "has_error" -> ExecutionResults
      [] op = "resolve" ->
            [project_name : ResolverProjectNames, file_name : EngineNames]
      [] op = "run_paths" ->
            [project_name : PlanProjectNames, file_name : EngineNames]
      [] op = "validate_plan" -> RawPlans
      [] op = "sanitize" -> SanitizeInputs

FnOps == {"has_error", "resolve", "run_paths", "validate_plan", "sanitize"}

FnInit ==
    /\ \E op \in FnOps : fn_op = op /\ fn_in \in FnInputs(op)
    /\ fn_state = "input"
    /\ fn_out = <<>>

\* executor.py 18-20: the has_error property is read
apply_has_error ==
    /\ fn_op = "has_error" /\ fn_state = "input"
    /\ fn_out' = <<has_error(fn_in)>>
    /\ fn_state' = "applied"
    /\ UNCHANGED <<fn_op, fn_in, orchVars, rpcVars, engVars>>

\* coder.py 64-65 and executor.py 34: the same two names are given to the
\* resolver of the coder and to the one of the engine
apply_resolve_project_path ==
    /\ fn_op = "resolve" /\ fn_state = "input"
    /\ fn_out' = <<coder_resolve_project_path(fn_in.project_name,
                                              fn_in.file_name),
                   engine_resolve_project_path(PROJECTS_ROOT,
                                               fn_in.project_name,
                                               fn_in.file_name)>>
    /\ fn_state' = "applied"
    /\ UNCHANGED <<fn_op, fn_in, orchVars, rpcVars, engVars>>

\* main.py 26-27: the project name of the plan is replaced by the sanitized
\* one; project_name is the local variable of run
sanitize_plan_project_name ==
    /\ fn_op = "run_paths" /\ fn_state = "input"
    /\ fn_out' = [project_name |-> sanitize_project_name(fn_in.project_name)]
    /\ fn_state' = "sanitized"
    /\ UNCHANGED <<fn_op, fn_in, orchVars, rpcVars, engVars>>

\* main.py 32, 49-52, 63, 100: the paths run derives for one file, all from
\* the local variable project_name
derive_run_paths ==
    /\ fn_op = "run_paths" /\ fn_state = "sanitized"
    /\ LET project_name == fn_out.project_name
       IN  fn_out' =
             [project_name |-> project_name,
              project_root |-> project_root_of(project_name),
              written |-> coder_resolve_project_path(project_name,
                                                     fn_in.file_name),
              executed |-> engine_resolve_project_path(PROJECTS_ROOT,
                                                       project_name,
                                                       fn_in.file_name),
              read |-> fix_target_path(project_name, fn_in.file_name)]
    /\ fn_state' = "applied"
    /\ UNCHANGED <<fn_op, fn_in, orchVars, rpcVars, engVars>>

\* planner.py 56-58: create_plan validates what _safe_parse_json returned
\* and returns the validated plan
apply_validate_plan ==
    /\ fn_op = "validate_plan" /\ fn_state = "input"
    /\ fn_out' = <<validate_plan(fn_in)>>
    /\ fn_state' = "applied"
    /\ UNCHANGED <<fn_op, fn_in, orchVars, rpcVars, engVars>>

\* main.py 134-137: _sanitize_project_name is applied to a string
sanitize_once ==
    /\ fn_op = "sanitize" /\ fn_state = "input"
    /\ fn_out' = <<sanitize_project_name(fn_in)>>
    /\ fn_state' = "sanitized"
    /\ UNCHANGED <<fn_op, fn_in, orchVars, rpcVars, engVars>>

\* main.py 134-137: _sanitize_project_name is applied to what it returned
sanitize_again ==
    /\ fn_op = "sanitize" /\ fn_state = "sanitized"
    /\ fn_out' = Append(fn_out, sanitize_project_name(fn_out[1]))
    /\ fn_state' = "applied"
    /\ UNCHANGED <<fn_op, fn_in, orchVars, rpcVars, engVars>>

FnNext ==
    \/ apply_has_error
    \/ sanitize_once
    \/ sanitize_again
    \/ apply_validate_plan
    \/ apply_resolve_project_path
    \/ sanitize_plan_project_name
    \/ derive_run_paths

FnSpecInit == OrchIdle /\ RpcIdle /\ EngIdle /\ FnInit

FnSpec == FnSpecInit /\ [][FnNext]_vars

-----------------------------------------------------------------------------
(* Properties of the orchestrator *)

RECURSIVE PlanOrder(_)
\* the positions of a plan, tasks in order and files in order within a task
PlanOrder(p) ==
    IF p = <<>> THEN <<>>
    ELSE PlanOrder(SubSeq(p, 1, Len(p) - 1))
             \o [f \in 1..Len(p[Len(p)]) |-> <<Len(p), f>>]

IsPrefix(a, b) == Len(a) <= Len(b) /\ a = SubSeq(b, 1, Len(a))
Range(q) == { q[i] : i \in 1..Len(q) }
InLoop == pc \in FileStages \cup {"completed"}
FileDone == pc \in {"done", "completed"}

\* after the body ended for a file, the next step binds the next position of
\* the plan and starts its generation, or is the completion step
ContinuesWithNextFile ==
    IF Len(started) < Len(PlanOrder(plan))
    THEN /\ pc' = "gen"
         /\ <<ti', fi'>> = PlanOrder(plan)[Len(started) + 1]
         /\ genCalls'[<<ti', fi'>>] = 0
    ELSE pc' = "completed"

\* C1: fix_code is called at most once per file and only after an execution
\* of that file gave has_error = TRUE; a first execution with has_error =
\* FALSE ends the file with exactly one execution and no repair call.
C1_RepairOnlyAfterError ==
    /\ fixCalls <= 1
    /\ (fixCalls > 0 \/ pc \in {"read", "fix", "rewrite", "reexec"})
           => (Len(results) >= 1 /\ has_error(results[1]))
    /\ (Len(results) >= 1 /\ ~has_error(results[1]))
           => (FileDone /\ Len(results) = 1 /\ fixCalls = 0)

C1_Witness ==
    /\ pc = "fix" /\ waiting /\ fixCalls = 1
    /\ Len(results) = 1 /\ results[1].return_code = 0 /\ has_error(results[1])

\* C2: per file at most one generate_file_code call, one fix_code call and
\* two executions; the second execution happens only after fix_code returned
\* content that was written back, and after it the file is Done.
C2_AtMostTwoGenerationsAndExecutions ==
    /\ \A q \in DOMAIN genCalls : genCalls[q] <= 1
    /\ fixCalls <= 1
    /\ Len(results) <= 2
    /\ procLaunched <= 2
    /\ (pc = "reexec" \/ Len(results) = 2)
           => (fixed_code = "text" /\ fixCalls = 1 /\ writes = 2)
    /\ Len(results) = 2 => FileDone

C2_Witness ==
    /\ pc = "done" /\ Len(results) = 2 /\ procLaunched = 2
    /\ fixCalls = 1 /\ genCalls[pos] = 1

C3_StaysInRun == pc \in FileStages => pc' \in (FileStages \cup {"completed"})

C4_SequentialInPlanOrder ==
    InLoop =>
        /\ IsPrefix(started, PlanOrder(plan))
        /\ IsPrefix(finished, started)
        /\ pc \in FileStages =>
               (Len(started) = Len(finished) + 1 /\ pos = started[Len(started)])
        /\ pc = "completed" =>
               (started = PlanOrder(plan) /\ finished = started)
        /\ \A op \in inflight :
               op.pos = started[Len(started)] /\ op.pos \notin Range(finished)
        /\ \A q \in DOMAIN genCalls : genCalls[q] > 0 => q \in Range(started)

C4_Witness ==
    /\ pc = "reexec" /\ waiting
    /\ Len(plan) = 2 /\ pos = <<2, 1>> /\ Len(finished) = 2

\* C5: at most one leaf operation (RPC call, child process, file operation
\* in a worker thread) is in flight at any time.
C5_AtMostOneInFlight == Cardinality(inflight) <= 1

C5_Witness ==
    /\ \E op \in inflight : op.kind = "proc" /\ op.stage = "reexec"
    /\ Len(finished) >= 1

\* C6: a first execution with an error followed by a repaired content that
\* executes without error means exactly one fix_code call, exactly two
\* executions and the report "Automatic correction successful.".
C6_CorrectedReport ==
    (/\ Len(results) >= 2
     /\ has_error(results[1])
     /\ ~has_error(results[Len(results)]))
        => /\ Len(results) = 2
           /\ fixCalls = 1
           /\ FileDone
           /\ report[Len(report)] = MsgFixOk
           /\ MsgFixFailed \notin Range(report)

C6_Witness ==
    /\ pc = "done" /\ Len(results) = 2 /\ fixCalls = 1
    /\ results[1].timed_out /\ ~has_error(results[2])
    /\ report[Len(report)] = MsgFixOk

C7_BothFailed ==
    /\ Len(results) >= 2
    /\ has_error(results[1])
    /\ has_error(results[Len(results)])

C7_Continues == (pc = "done" /\ C7_BothFailed) => ContinuesWithNextFile

\* C7: when the first execution and the execution of the repaired content
\* both have an error there is exactly one fix_code call and exactly two
\* executions, the report is "Automatic correction failed.", and the run
\* continues with the next file of the plan.
C7_FailedAfterRepair ==
    /\ [](C7_BothFailed =>
             /\ Len(results) = 2
             /\ fixCalls = 1
             /\ FileDone
             /\ report[Len(report)] = MsgFixFailed
             /\ MsgFixOk \notin Range(report))
    /\ [][C7_Continues]_vars

C7_Witness ==
    /\ pc = "done" /\ C7_BothFailed /\ fixCalls = 1
    /\ report[Len(report)] = MsgFixFailed
    /\ Len(started) < Len(PlanOrder(plan))

\* the name does not end in ".py" (any letter case) after a non-empty stem
C8_NotPy(name) ==
    ~ (/\ Len(name) >= 4
       /\ name[Len(name) - 2] = "."
       /\ name[Len(name) - 1] \in {"p", "P"}
       /\ name[Len(name)] \in {"y", "Y"})

\* C8: a file whose extension is not .py (case-insensitively) is never
\* executed and never repaired: it is Done right after Writing.
C8_NonPyNeverExecuted ==
    (InLoop /\ C8_NotPy(file_name))
        => /\ results = <<>>
           /\ procLaunched = 0
           /\ fixCalls = 0
           /\ writeCalls <= 1
           /\ pc \in {"gen", "write", "done", "completed"}

C8_Witness ==
    /\ pc = "done" /\ writes = 1 /\ report = <<MsgCreated>>
    /\ file_name = <<"r", ".", "m", "d">>

C9_Abandoned ==
    MsgGenFailed \in Range(report) \/ MsgWriteFailed \in Range(report)

C9_Continues == (pc = "done" /\ C9_Abandoned) => ContinuesWithNextFile

\* C9: a file whose generation failed, or whose first write failed, is
\* abandoned: no later stage runs for it, the failed stage is not retried,
\* and the run continues with the next file.
C9_AbandonOnGenerateOrWriteFailure ==
    /\ [](MsgGenFailed \in Range(report) =>
             /\ FileDone
             /\ genCalls[pos] = 1
             /\ writeCalls = 0)
    /\ [](MsgWriteFailed \in Range(report) =>
             /\ FileDone
             /\ genCalls[pos] = 1
             /\ writeCalls = 1 /\ writes = 0)
    /\ [](C9_Abandoned =>
             /\ results = <<>> /\ procLaunched = 0
             /\ fixCalls = 0 /\ fixed_code = "none")
    /\ [][C9_Continues]_vars

C9_Witness ==
    /\ pc = "done" /\ report = <<MsgWriteFailed>>
    /\ lower(suffix(file_name)) = DotPy
    /\ Len(started) < Len(PlanOrder(plan))

-----------------------------------------------------------------------------
(* Properties of the RPC client *)

\* the retry budget of the call: retry_count when given, else the configured
\* max_retries, a negative value counting as 0
C10_Budget ==
    LET n == IF rq_retry_count = <<>> THEN rq_cfg_max_retries
             ELSE rq_retry_count[1]
    IN  IF n < 0 THEN 0 ELSE n

C10_Negative ==
    IF rq_retry_count = <<>> THEN rq_cfg_max_retries < 0
    ELSE rq_retry_count[1] < 0

C10_AllTransport ==
    /\ Len(rq_failures) = rq_attempts
    /\ Range(rq_failures) \subseteq {"connection", "timeout"}

\* C10: one call makes at most max_retries + 1 attempts (retry_count taking
\* the place of max_retries when given), exactly that many when every attempt
\* fails at transport level, after which the failure is raised; a negative
\* max_retries or retry_count still gives exactly one attempt.
C10_AttemptBudget ==
    rq_state # "idle" =>
        /\ rq_attempts <= C10_Budget + 1
        /\ (rq_state = "raised" /\ C10_AllTransport)
               => rq_attempts = C10_Budget + 1
        /\ (rq_attempts = C10_Budget + 1 /\ C10_AllTransport)
               => (rq_state = "raised"
                   /\ rq_error \in {"timed_out", "request_failed"})
        /\ (rq_state \in {"returned", "raised"} /\ C10_Negative)
               => rq_attempts = 1

C10_Witness ==
    /\ rq_state = "raised" /\ rq_attempts = 1
    /\ rq_cfg_max_retries = -1 /\ rq_retry_count = <<>>
    /\ rq_failures = <<"connection">>

\* a malformed 2xx body: not JSON at all, or JSON that is not an object
Malformed == {"non_json", "not_dict"}

\* attempt i was the last one and the request failed at it, with no delay
\* slept after it
EndsRequestAt(i) ==
    /\ rq_attempts = i
    /\ rq_state = "raised"
    /\ Len(rq_sleeps) <= i - 1

\* C11: a non-2xx HTTP status is not retried: the request fails at the
\* attempt that received it, and no backoff delay follows.
C11_Non2xxNotRetried ==
    \A i \in 1..Len(rq_failures) :
        rq_failures[i] = "http_status" => EndsRequestAt(i)

\* C12: a 2xx response whose body is not a JSON object, or is an object with
\* a non-blank string error field, is not retried: the request fails at the
\* attempt that received it; when the body has both an error and a response
\* field the error is what is reported and the response is not returned.
C12_BadBodyNotRetried ==
    /\ \A i \in 1..Len(rq_failures) :
           rq_failures[i] \in Malformed => EndsRequestAt(i)
    /\ (rq_api = "generate" /\ rq_state = "returned"
        /\ rq_body.error.type = "str"
        /\ \E k \in 1..Len(rq_body.error.text) :
               rq_body.error.text[k] \notin Whitespace)
           => /\ rq_result.status = "raised"
              /\ rq_result.error = "api_error"
              /\ Len(rq_sleeps) <= rq_attempts - 1

\* C13: each of CoderAgent, PlannerAgent and DebuggerAgent retries a
\* transport failure up to max_retries times: a call whose every attempt
\* failed at transport level made max_retries + 1 attempts before it raised.
C13_EveryAgentRetries ==
    (rq_client \in Agents /\ rq_state = "raised" /\ C10_AllTransport)
        => rq_attempts = C10_Budget + 1

\* the configured backoff base, a negative one counting as 0
C14_Base == IF rq_cfg_base < 0 THEN 0 ELSE rq_cfg_base

\* C14: the delay before retry k (k from 0) is base * 2^k, so the delays are
\* non-decreasing; exactly one delay separates consecutive attempts and none
\* follows the last attempt.  A base of 0 gives delays of 0: nothing is slept.
C14_ExponentialDelays ==
    /\ \A k \in 1..Len(rq_sleeps) : rq_sleeps[k] = C14_Base * 2^(k - 1)
    /\ \A k \in 2..Len(rq_sleeps) : rq_sleeps[k - 1] <= rq_sleeps[k]
    /\ C14_Base = 0 => rq_sleeps = <<>>
    /\ C14_Base > 0 =>
           Len(rq_sleeps) = CASE rq_state = "idle" -> 0
                              [] rq_state = "running" -> rq_attempts
                              [] OTHER -> rq_attempts - 1

C14_Witness ==
    /\ rq_state = "raised" /\ rq_attempts = 3
    /\ rq_cfg_base = 3
    /\ rq_sleeps = <<3, 6>>

\* text is s without the whitespace at its two ends
IsTrimOf(text, s) ==
    \E i \in 1..Len(s) : \E j \in i..Len(s) :
        /\ text = SubSeq(s, i, j)
        /\ s[i] \notin Whitespace /\ s[j] \notin Whitespace
        /\ \A k \in 1..Len(s) : (k < i \/ k > j) => s[k] \in Whitespace

C15_Blank(field) ==
    \/ field.type # "str"
    \/ \A k \in 1..Len(field.text) : field.text[k] \in Whitespace

C16_ProbesSingleAttempt ==
    rq_api \in {"check_server", "check_model"} =>
        /\ rq_attempts <= 1
        /\ rq_sleeps = <<>>
        /\ rq_state \in {"returned", "raised"}
              => /\ rq_attempts = 1
                 /\ rq_result.status = "returned"
        /\ rq_state = "raised"
              => /\ rq_result.ok = FALSE
                 /\ rq_result.error = rq_error
                 /\ rq_error # "none"

C16_Witness ==
    /\ rq_api = "check_model" /\ rq_cfg_max_retries = MaxRetriesCfg
    /\ rq_state = "raised" /\ rq_failures = <<"connection">>
    /\ rq_result.status = "returned" /\ rq_result.ok = FALSE

-----------------------------------------------------------------------------
(* Properties of the engine and the path resolver *)

\* projects/<project_name>, as an absolute path
C18_Root == Cwd \o <<PROJECTS_ROOT, ProjectName>>

\* the leaf operations on files and processes that have a path
C18_PathOps == { op \in inflight : op.kind \in {"io", "proc"} }

\* C18: every path the resolver returns is the project root or nested under
\* it, and in any run every path that is written, executed or read for
\* repair lies under projects/<project_name>.
C18_Confinement ==
    /\ pc \in FileStages =>
           LET r == resolved_target[file_name]
           IN  r.ok => IsPrefix(C18_Root, r.path)
    /\ \A op \in C18_PathOps : IsPrefix(C18_Root, op.path)

\* the first file of the plan lies outside the project and was refused; the
\* second one is being read back for repair
C18_Witness ==
    /\ plan # <<>> /\ plan[1][1] = <<".", ".", "/", "a", ".", "P", "y">>
    /\ pc = "read" /\ waiting
    /\ \E op \in C18_PathOps :
           op.stage = "read" /\ op.path = C18_Root \o << <<"a", ".", "P", "y">> >>

\* the canonical form of file_name: the project root joined with it, ".."
\* collapsed, an absolute file_name taking the place of the root
C17_Canonical(name) == resolve(joinpath(ProjectRoot, strip(name)))

\* the canonical form is neither the project root nor below it
C17_Escapes(name) == ~IsPrefix(ProjectRoot, C17_Canonical(name))

C17_HasDotDot(name) ==
    \E i \in 1..Len(split(strip(name))) : split(strip(name))[i] = <<".", ".">>

\* the call was rejected with the escape error, no file was created or
\* written and no process was launched
C17_Rejected ==
    /\ en_state = "raised" /\ en_error = "escape"
    /\ en_fs = en_fs0
    /\ en_launched = 0
    /\ en_child = NoChild

\* C17 as stated: every relative path with a ".." segment and every
\* absolute path is rejected with the escape error, and the rejected write
\* or execution mutates no file and launches no process.
C17_EveryDotDotOrAbsoluteRejected ==
    (en_op # "none"
     /\ (C17_HasDotDot(en_name) \/ is_absolute(strip(en_name))))
        => C17_Rejected

\* C17 (amended): every path whose canonical form is neither the project
\* root nor nested under it is rejected with the escape error, and the
\* rejected write or execution mutates no file and launches no process; a
\* path that is rejected at all is rejected that way.
C17_EscapeRejected ==
    /\ (en_op # "none" /\ C17_Escapes(en_name)) => C17_Rejected
    /\ en_error = "escape" => C17_Rejected

C17_Witness ==
    /\ en_op = "write_file"
    /\ en_name = <<".", ".", "/", "a", ".", "p", "y">>
    /\ en_fs0 # {}
    /\ C17_Rejected

\* q ends with the text t
EndsWith(q, t) ==
    Len(q) >= Len(t) /\ SubSeq(q, Len(q) - Len(t) + 1, Len(q)) = t

\* C19: when an execution times out the result has timed_out = true,
\* return_code = 124, the timeout notice at the end of stderr and has_error
\* true; on normal completion timed_out = false and return_code is the exit
\* status of the child.
C19_TimeoutResult ==
    (en_op = "run_python_file" /\ en_state = "returned") =>
        IF en_child.killed
        THEN /\ en_result.timed_out = TRUE
             /\ en_result.return_code = 124
             /\ EndsWith(en_result.stderr, TimeoutMessage)
             /\ has_error(en_result)
        ELSE /\ en_result.timed_out = FALSE
             /\ en_result.return_code = en_child.status
             /\ en_result.stderr = en_child.stderr

C19_Witness ==
    /\ en_op = "run_python_file" /\ en_state = "returned"
    /\ en_child.killed /\ en_child.status = 0
    /\ en_result.stderr = <<"E", "\n", "\n">> \o TimeoutMessage

\* C20: after a timed-out run_python_file has returned, neither the child
\* nor any process it spawned is alive.
C20_NoSurvivorAfterTimeout ==
    (en_op = "run_python_file" /\ en_state = "returned" /\ en_result.timed_out)
        => (~en_child.alive /\ ~en_child.desc_alive)

-----------------------------------------------------------------------------
(* Properties of the checks of run_python_file *)

\* C22: run_python_file raises without creating a child process when the
\* path leaves the project directory, else when the file does not exist
\* (NotFound), else when its extension is not .py (UnsupportedKind); a
\* missing file that is not a .py file is therefore reported NotFound.
C22_FailFastInOrder ==
    (en_op = "run_python_file" /\ en_state # "idle")
        => LET r == resolve_project_path(project_path, strip(en_name))
               missing == r.ok /\ r.path \notin en_fs0
                          /\ ~is_dir(r.path, en_fs0)
               other_kind == r.ok /\ lower(path_suffix(r.path)) # DotPy
           IN  /\ ~r.ok => en_state = "raised" /\ en_error = "escape"
               /\ missing => en_state = "raised" /\ en_error = "not_found"
               /\ (other_kind /\ ~missing)
                     => en_state = "raised" /\ en_error = "unsupported_kind"
               /\ (~r.ok \/ missing \/ other_kind)
                     => en_launched = 0 /\ en_child = NoChild
               /\ en_error \in {"escape", "not_found", "unsupported_kind"}
                     => (~r.ok \/ missing \/ other_kind)

\* run_python_file was called for a.t, which is not on disk, and raised
\* NotFound without creating a child
C22_Witness ==
    /\ en_op = "run_python_file"
    /\ en_name = <<"a", ".", "t">>
    /\ ProjectRoot \o <<en_name>> \notin en_fs0
    /\ en_state = "raised" /\ en_error = "not_found"
    /\ en_launched = 0

-----------------------------------------------------------------------------
(* Properties of the run: engine errors, project directory, repair call *)

\* C23: when the first execution of a file ended with an error raised by the
\* engine (not found, unsupported kind, path outside the project, launch
\* failure), the file is done at once: no fix_code call is made for it and
\* nothing more is executed.
C23_EngineErrorIsSkip ==
    (Len(results) >= 1 /\ results[1] = fake_result)
        => /\ pc \in {"done", "completed"}
           /\ fixCalls = 0
           /\ Len(results) = 1
           /\ original_code = "none"

\* the project directory comes into being only in a step in which a write
\* of a file succeeds
C24_CreatedByWrite ==
    (~rootCreated /\ rootCreated') => writes' = writes + 1

\* C24: the project directory is created by the first write that succeeds
\* and by nothing else, so that it does not exist in a run in which no
\* write succeeded.
C24_RootCreatedLazily == [][C24_CreatedByWrite]_vars

\* C26: whenever fix_code has been called for a file, its error message is
\* the stderr of the first execution of that file or, when that stderr is
\* empty, a message that carries the exit code, which is not 0; in both
\* cases the message is not blank, and the content passed is what was read
\* from disk after that execution.
C26_RepairArguments ==
    fixCalls >= 1
        => /\ Len(results) >= 1
           /\ original_code # "none"
           /\ LET first_result == results[1]
                  message == error_message(first_result)
              IN  /\ first_result.stderr = <<>>
                        => /\ first_result.return_code # 0
                           /\ EndsWith(message,
                                       str_int(first_result.return_code))
                  /\ first_result.stderr # <<>>
                        => message = first_result.stderr
                  /\ strip(message) # <<>>

\* C27: while there is no plan, run has done nothing but ask for one: no
\* project directory, no generation, write, execution or repair; and when
\* the planner has failed (blank request, failed RPC, unparsable or invalid
\* plan) run has returned 1.
C27_PlannerFailureEndsRun ==
    plan = <<>>
        => /\ pc \in {"plan", "returned"}
           /\ pc = "returned" => exitStatus = 1
           /\ pc = "plan" => exitStatus = -1
           /\ ~rootCreated
           /\ inflight \subseteq {Op("rpc", "plan")}
           /\ started = <<>> /\ finished = <<>>
           /\ results = <<>> /\ report = <<>>
           /\ writeCalls = 0 /\ fixCalls = 0 /\ procLaunched = 0

\* the planner was called with a request that is not blank, raised, and run
\* returned 1
C27_Witness ==
    /\ user_request = "text"
    /\ plan = <<>>
    /\ pc = "returned" /\ ~waiting
    /\ exitStatus = 1

\* C30: once the planner has returned a plan, no exception leaves run and
\* the only value run returns is 0.
C30_ExitZeroAfterPlanning ==
    plan # <<>>
        => /\ pc # "raised"
           /\ exitStatus \in {-1, 0}
           /\ pc = "completed" => exitStatus = 0

\* every file of the plan has left the loop body and run has returned 0
C31_AllDone ==
    /\ pc = "completed"
    /\ \A q \in Positions(plan) :
          \E i \in 1..Len(finished) : finished[i] = q

\* C31: when every awaited call returns or raises, run terminates, and
\* once there is a plan every file of it reaches the end of the loop body;
\* no file enters the loop body twice.
C31_EveryFileDoneAndRunTerminates ==
    /\ (pc = "plan") ~> (pc \in {"returned", "raised", "completed"})
    /\ (plan # <<>>) ~> C31_AllDone
    /\ [](\A i, j \in 1..Len(started) : started[i] = started[j] => i = j)

-----------------------------------------------------------------------------
(* Properties of the engine after the timeout *)

\* C32: once the timeout has fired and the child has been killed,
\* run_python_file eventually returns, whatever the child has spawned.
C32_TimeoutEventuallyReturns ==
    (en_op = "run_python_file" /\ en_state = "draining")
        ~> (en_state = "returned")

-----------------------------------------------------------------------------
(* Properties of the functions *)

\* some character of the text is not whitespace
HasNonWhitespace(text) == \E i \in 1..Len(text) : text[i] \notin Whitespace

\* C21: has_error is true exactly when the result is timed out, or its
\* return code is not 0, or its stderr holds a character that is not
\* whitespace; replacing stdout by any other text leaves has_error unchanged.
C21_HasError ==
    (fn_op = "has_error" /\ fn_state = "applied")
        => /\ fn_out[1] = (\/ fn_in.timed_out
                           \/ fn_in.return_code # 0
                           \/ HasNonWhitespace(fn_in.stderr))
           /\ \A out \in StdoutTexts :
                  has_error([fn_in EXCEPT !.stdout = out]) = fn_out[1]

\* has_error was read on a result with return code 0, whitespace on stderr
\* and text on stdout, and is false
C21_Witness ==
    /\ fn_op = "has_error" /\ fn_state = "applied"
    /\ ~fn_in.timed_out /\ fn_in.return_code = 0
    /\ fn_in.stderr # <<>> /\ HasNonWhitespace(fn_in.stdout)
    /\ fn_out = <<FALSE>>

\* C28: given the same project name and file name, the resolver of the
\* coder and the resolver of the engine both reject the name or both accept
\* it, and when they accept it they give the same absolute path.
C28_ResolversAgree ==
    (fn_op = "resolve" /\ fn_state = "applied")
        => /\ fn_out[1].ok = fn_out[2].ok
           /\ fn_out[1].ok => fn_out[1].path = fn_out[2].path

\* a padded file name was given to both resolvers, both accepted it and
\* both gave projects/p/a.py
C28_Witness ==
    /\ fn_op = "resolve" /\ fn_state = "applied"
    /\ fn_in.file_name = <<" ", "a", ".", "p", "y", "\n">>
    /\ fn_in.project_name = <<"p">>
    /\ fn_out[1].ok /\ fn_out[2].ok
    /\ fn_out[2].path = Cwd \o <<PROJECTS_ROOT, <<"p">>, <<"a", ".", "p", "y">> >>

\* the two resolvers were given a name that climbs out of the project and
\* both rejected it
C28_WitnessRejected ==
    /\ fn_op = "resolve" /\ fn_state = "applied"
    /\ ~fn_out[1].ok /\ ~fn_out[2].ok

\* C25: no path is derived before the project name is sanitized; the
\* sanitized name is not empty and holds only ASCII letters, digits, "_"
\* and "-", and is generated_project when the name of the plan holds no
\* letter, digit or "-"; the project directory is projects/<that name> and
\* the paths written, executed and read back lie under it.
C25_SanitizedNameOnly ==
    fn_op = "run_paths"
        => /\ fn_state = "input" => fn_out = <<>>
           /\ fn_state = "sanitized" => DOMAIN fn_out = {"project_name"}
           /\ fn_state # "input"
                 => LET name == fn_out.project_name
                        raw == fn_in.project_name
                    IN  /\ name # <<>>
                        /\ \A i \in 1..Len(name) : name[i] \in NameChars
                        /\ (\A i \in 1..Len(raw) :
                                raw[i] \notin NameChars \ {"_"})
                              => name = GeneratedProject
           /\ fn_state = "applied"
                 => LET root == Cwd \o <<PROJECTS_ROOT, fn_out.project_name>>
                    IN  /\ fn_out.project_root = root
                        /\ fn_out.written.ok
                              => /\ IsPrefix(root, fn_out.written.path)
                                 /\ IsPrefix(root, fn_out.read)
                        /\ fn_out.executed.ok
                              => IsPrefix(root, fn_out.executed.path)

\* the plan named the project a/./b: the paths of a.py were derived under
\* projects/a_b
C25_Witness ==
    /\ fn_op = "run_paths" /\ fn_state = "applied"
    /\ fn_in.project_name = <<"a", "/", ".", "/", "b">>
    /\ fn_in.file_name = <<"a", ".", "p", "y">>
    /\ fn_out.project_name = <<"a", "_", "b">>
    /\ fn_out.written.ok /\ fn_out.executed.ok
    /\ fn_out.executed.path
          = Cwd \o <<PROJECTS_ROOT, <<"a", "_", "b">>, <<"a", ".", "p", "y">> >>

\* the plan named the project with a letter that is not ASCII: the name
\* used is generated_project
C25_WitnessFallback ==
    /\ fn_op = "run_paths" /\ fn_state = "sanitized"
    /\ fn_in.project_name = <<"é">>
    /\ fn_out.project_name = GeneratedProject

\* f maps 1..n into 1..m in increasing order and onto the set kept
IsOrderedOnto(f, n, kept) ==
    /\ \A i, j \in 1..n : i < j => f[i] < f[j]
    /\ { f[i] : i \in 1..n } = kept

\* the name is not blank and has no whitespace at either end
IsTrimmedName(name) ==
    /\ HasNonWhitespace(name)
    /\ name[1] \notin Whitespace /\ name[Len(name)] \notin Whitespace

\* text is value without the whitespace at its two ends
IsTrimmed(text, value) ==
    \E a, b \in 0..Len(value) :
        /\ a + b <= Len(value)
        /\ \A i \in 1..a : value[i] \in Whitespace
        /\ \A i \in 1..b : value[Len(value) + 1 - i] \in Whitespace
        /\ text = SubSeq(value, a + 1, Len(value) - b)
        /\ (text # <<>> => text[1] \notin Whitespace
                           /\ text[Len(text)] \notin Whitespace)

\* the entry of the JSON task list is an object with a description that is
\* a string and not blank, and a list of files with a name that is not blank
IsGoodTask(task) ==
    /\ task.type = "dict"
    /\ task.description.type = "str"
    /\ HasNonWhitespace(task.description.text)
    /\ task.files_to_create.type = "list"
    /\ \E i \in 1..Len(task.files_to_create.items) :
          HasNonWhitespace(task.files_to_create.items[i].text)

\* the task of the plan is the entry of the JSON list, trimmed, with its
\* names that are not blank in their order
IsTaskOf(task, raw_task) ==
    LET items == raw_task.files_to_create.items
        files == task.files_to_create
        named == { i \in 1..Len(items) : HasNonWhitespace(items[i].text) }
    IN  /\ IsTrimmed(task.description, raw_task.description.text)
        /\ \E g \in [1..Len(files) -> 1..Len(items)] :
              /\ IsOrderedOnto(g, Len(files), named)
              /\ \A k \in 1..Len(files) :
                    IsTrimmed(files[k], items[g[k]].text)

\* C29: a plan that create_plan returns has at least one task; each task
\* has a description that is not blank and at least one file name, every
\* file name trimmed and not blank; the tasks are the good entries of the
\* answer in their order, all others being dropped; and create_plan raises
\* when no good entry is left.
C29_ValidatedPlan ==
    (fn_op = "validate_plan" /\ fn_state = "applied")
        => LET out == fn_out[1]
               raw == IF fn_in.type = "dict" /\ fn_in.tasks.type = "list"
                      THEN fn_in.tasks.items ELSE <<>>
               good == { i \in 1..Len(raw) : IsGoodTask(raw[i]) }
           IN  /\ out.ok
                     => /\ out.tasks # <<>>
                        /\ \A k \in 1..Len(out.tasks) :
                              /\ HasNonWhitespace(out.tasks[k].description)
                              /\ out.tasks[k].files_to_create # <<>>
                              /\ \A m \in 1..Len(out.tasks[k].files_to_create) :
                                    IsTrimmedName(out.tasks[k].files_to_create[m])
                        /\ \E f \in [1..Len(out.tasks) -> 1..Len(raw)] :
                              /\ IsOrderedOnto(f, Len(out.tasks), good)
                              /\ \A k \in 1..Len(out.tasks) :
                                    IsTaskOf(out.tasks[k], raw[f[k]])
               /\ good = {} => ~out.ok

\* the answer listed a task with a blank description and then a task with
\* blank names among its files: the plan returned has the second task
\* only, with its three names that are not blank
C29_Witness ==
    /\ fn_op = "validate_plan" /\ fn_state = "applied"
    /\ fn_in.type = "dict" /\ fn_in.tasks.type = "list"
    /\ Len(fn_in.tasks.items) = 2
    /\ fn_in.tasks.items[1].type = "dict"
    /\ fn_in.tasks.items[1].description = Str(<<" ", "\n">>)
    /\ fn_out[1].ok
    /\ Len(fn_out[1].tasks) = 1
    /\ fn_out[1].tasks[1].description = <<"e">>
    /\ fn_out[1].tasks[1].files_to_create
          = << <<"b", ".", "t">>, <<"N", "o", "n", "e">>,
               <<"c", ".", "p", "y">> >>
    /\ fn_out[1].tasks[1].step_number = 2

\* C33: the project name sanitized a second time is the name sanitized
\* once, for every string, generated_project included.
C33_SanitizeIdempotent ==
    (fn_op = "sanitize" /\ fn_state = "applied") => fn_out[2] = fn_out[1]

\* a string that sanitization changes ("_/p" becomes "p") was sanitized
\* twice with the same result
C33_Witness ==
    /\ fn_op = "sanitize" /\ fn_state = "applied"
    /\ fn_in = <<"_", "/", "p">>
    /\ fn_out = << <<"p">>, <<"p">> >>

\* generated_project was sanitized twice and came back unchanged
C33_WitnessFallback ==
    /\ fn_op = "sanitize" /\ fn_state = "applied"
    /\ fn_in = GeneratedProject
    /\ fn_out = <<GeneratedProject, GeneratedProject>>

====
